---- MODULE Spec2Model ----
(***************************************************************************)
(* Model of fresher's building-mode iteration engine (commands/build.rs),  *)
(* its State record (state.rs) and its hook runner (hooks.rs), followed by *)
(* the library functions checked on their own: the stream classifier       *)
(* (streaming.rs), has_pending_tasks (verify.rs) and the focus selection   *)
(* of the hierarchical plan index (impl_plan.rs).                          *)
(***************************************************************************)
EXTENDS Integers, Sequences, FiniteSets, TLC

VARIABLES
    pc,            \* position of commands::build::run
    state,         \* the in-memory State record
    saved,         \* the record in .fresher/.state (NoRecord when absent)
    config,        \* the loaded Config (max_iterations, smart_termination, hooks.enabled)
    should_stop,   \* the AtomicBool set by the Ctrl+C task
    now,           \* Utc::now(), in seconds
    chain,         \* git: the revisions reachable from HEAD, oldest first
    planPending,   \* whether the plan documents hold a pending checkbox line
    worker,        \* the claude subprocess: alive flag, exit code, spawn count, and the
                   \* is_error of the ProcessResult of its stream
    hook,          \* the run_hook call made by the latest step of run, if any
    calls,         \* how often each hook function was called, and hook processes run
    iteration_sha, \* run's local iteration_sha, snapshotted at the iteration start
    call           \* a library call made outside a build run: inputs, position, result

vars == <<pc, state, saved, config, should_stop, now, chain,
          planPending, worker, hook, calls, iteration_sha, call>>

----------------------------------------------------------------------------
\* Bounds of the model

MaxIter == 2         \* largest max_iterations setting, and cap on State.iteration
MaxClock == 1        \* last clock tick
MaxRev == 2          \* revisions that can exist in the repository

\* Absent Option values
NoSha == 0
NoTime == -1
NoFinish == "none"
NoRecord == [iteration |-> -1]

FinishTypes == {"manual", "error", "max_iterations", "complete", "no_changes"}

\* Exit codes a worker process reports; -1 stands for status.code() == None
WorkerExitCodes == {0, 1, -1}

----------------------------------------------------------------------------
\* state.rs

StateDefault(t) ==
    [iteration |-> 0, last_exit_code |-> 0, last_commit_sha |-> NoSha,
     started_at |-> t, total_commits |-> 0, duration |-> 0,
     finish_type |-> NoFinish, iteration_start |-> NoTime,
     iteration_sha |-> NoSha]

update_duration(s, t) == [s EXCEPT !.duration = t - s.started_at]

start_iteration(s, commit_sha, t) ==
    [s EXCEPT !.iteration = s.iteration + 1,
              !.iteration_start = t,
              !.iteration_sha = commit_sha]

complete_iteration(s, exit_code, commits, cur_sha, t) ==
    update_duration(
        [s EXCEPT !.last_exit_code = exit_code,
                  !.total_commits = s.total_commits + commits,
                  !.last_commit_sha = IF commits > 0 THEN cur_sha ELSE s.last_commit_sha],
        t)

set_finish(s, finish_type, t) ==
    update_duration([s EXCEPT !.finish_type = finish_type], t)

\* git rev-parse HEAD over the modelled repository
get_current_sha(ch) == IF Len(ch) = 0 THEN NoSha ELSE ch[Len(ch)]

\* git rev-list --count sha..HEAD: revisions reachable from HEAD and not from
\* sha; 0 when git fails because sha is no revision of the repository
count_commits_since(sha, ch) ==
    IF \E i \in 1..Len(ch) : ch[i] = sha
    THEN Len(ch) - (CHOOSE i \in 1..Len(ch) : ch[i] = sha)
    ELSE 0

----------------------------------------------------------------------------
\* hooks.rs

HOOK_CONTINUE == 0
HOOK_SKIP == 1
HOOK_ABORT == 2

\* Exit codes a hook script is run with in the model
HookExitCodes == {0, 1, 2, 3, 99}

\* What awaiting timeout(cmd.status()) can yield
HookOutcomes ==
    [kind : {"exit"}, code : HookExitCodes]
        \cup {[kind |-> "signal", code |-> 0],
              [kind |-> "timeout", code |-> 0],
              [kind |-> "spawn_error", code |-> 0]}

\* The hook file and what running it would do
HookInputs ==
    [exists : {TRUE}, executable : {TRUE}, metaOk : {TRUE}, outcome : HookOutcomes]
        \cup [exists : BOOLEAN, executable : BOOLEAN, metaOk : BOOLEAN,
              outcome : {[kind |-> "exit", code |-> 0]}]

\* The hook files the engine is run against: one for every result of run_hook
EngineHookInputs ==
    {in \in HookInputs :
        \/ in.exists /\ in.executable /\ in.metaOk /\ in.outcome.code \in {0, 1, 2, 99}
        \/ ~in.exists /\ in.executable /\ in.metaOk
        \/ in.exists /\ in.executable /\ ~in.metaOk}

Digit(d) == <<"0", "1", "2", "3", "4", "5", "6", "7", "8", "9">>[d + 1]

RECURSIVE NatToStr(_)
NatToStr(n) ==
    IF n < 10 THEN <<Digit(n)>> ELSE NatToStr(n \div 10) \o <<Digit(n % 10)>>

\* format!("{}", code) for an i32
IntToStr(n) == IF n < 0 THEN <<"-">> \o NatToStr(-n) ELSE NatToStr(n)

HookResult(kind) == [kind |-> kind, msg |-> <<>>]
HookError(msg) == [kind |-> "Error", msg |-> msg]
\* Err(_) returned by run_hook through `?`
HookErr == [kind |-> "Err", msg |-> <<>>]

\* status.code().unwrap_or(-1)
status_code(outcome) == IF outcome.kind = "exit" THEN outcome.code ELSE -1

\* exit_code_result with an error message that leaves the code out
exit_code_result_NoCode(code) ==
    IF code = HOOK_CONTINUE THEN HookResult("Continue")
    ELSE IF code = HOOK_SKIP THEN HookResult("Skip")
    ELSE IF code = HOOK_ABORT THEN HookResult("Abort")
    ELSE HookError(<<"Hook exited with an error">>)

\* lines 80-86: the match on the exit code
exit_code_result(code) ==
    IF code = HOOK_CONTINUE THEN HookResult("Continue")
    ELSE IF code = HOOK_SKIP THEN HookResult("Skip")
    ELSE IF code = HOOK_ABORT THEN HookResult("Abort")
    ELSE HookError(<<"Hook exited with code ">> \o IntToStr(code))

run_hook(enabled, in) ==
    IF ~enabled THEN HookResult("NotFound")
    ELSE IF ~in.exists THEN HookResult("NotFound")
    ELSE IF ~in.metaOk THEN HookErr
    ELSE IF ~in.executable THEN HookResult("NotFound")
    ELSE IF in.outcome.kind = "timeout" THEN HookResult("Timeout")
    ELSE IF in.outcome.kind = "spawn_error" THEN HookError(<<"Failed to run hook: ">>)
    ELSE exit_code_result(status_code(in.outcome))

\* TRUE when run_hook gets as far as running the hook file
hook_executes(enabled, in) ==
    enabled /\ in.exists /\ in.metaOk /\ in.executable
        /\ in.outcome.kind # "spawn_error"

\* run_started_hook stopping the run on a timeout
run_started_hook_TimeoutStops(r) ==
    IF r.kind = "Err" THEN "err"
    ELSE IF r.kind \in {"Continue", "NotFound"} THEN "true"
    ELSE IF r.kind \in {"Abort", "Timeout"} THEN "false"
    ELSE "true"

\* Ok(bool) as "true"/"false", Err as "err"
run_started_hook(r) ==
    IF r.kind = "Err" THEN "err"
    ELSE IF r.kind \in {"Continue", "NotFound"} THEN "true"
    ELSE IF r.kind = "Abort" THEN "false"
    ELSE IF r.kind = "Timeout" THEN "true"
    ELSE IF r.kind = "Error" THEN "true"
    ELSE "true"

\* run_next_iteration_hook skipping the iteration on a hook error
run_next_iteration_hook_ErrorSkips(r) ==
    IF r.kind = "Err" THEN [ok |-> FALSE, should_continue |-> FALSE, should_skip |-> FALSE]
    ELSE IF r.kind \in {"Continue", "NotFound"}
        THEN [ok |-> TRUE, should_continue |-> TRUE, should_skip |-> FALSE]
    ELSE IF r.kind \in {"Skip", "Error"}
        THEN [ok |-> TRUE, should_continue |-> TRUE, should_skip |-> TRUE]
    ELSE IF r.kind = "Abort"
        THEN [ok |-> TRUE, should_continue |-> FALSE, should_skip |-> FALSE]
    ELSE [ok |-> TRUE, should_continue |-> TRUE, should_skip |-> FALSE]

\* Ok((should_continue, should_skip)), with ok = FALSE for Err
run_next_iteration_hook(r) ==
    IF r.kind = "Err" THEN [ok |-> FALSE, should_continue |-> FALSE, should_skip |-> FALSE]
    ELSE IF r.kind \in {"Continue", "NotFound"}
        THEN [ok |-> TRUE, should_continue |-> TRUE, should_skip |-> FALSE]
    ELSE IF r.kind = "Skip"
        THEN [ok |-> TRUE, should_continue |-> TRUE, should_skip |-> TRUE]
    ELSE IF r.kind = "Abort"
        THEN [ok |-> TRUE, should_continue |-> FALSE, should_skip |-> FALSE]
    ELSE [ok |-> TRUE, should_continue |-> TRUE, should_skip |-> FALSE]

\* run_finished_hook failing the run when the hook asks for an abort
run_finished_hook_AbortFails(r) == r.kind \notin {"Err", "Abort"}

\* Ok(()) as TRUE, Err as FALSE
run_finished_hook(r) == r.kind # "Err"

\* EnvNames without FRESHER_FINISH_TYPE
EnvNames_NoFinishType(s) ==
    {"FRESHER_ITERATION", "FRESHER_LAST_EXIT_CODE", "FRESHER_TOTAL_COMMITS",
     "FRESHER_DURATION", "FRESHER_TOTAL_ITERATIONS"}
        \cup (IF s.last_commit_sha # NoSha THEN {"FRESHER_LAST_COMMIT_SHA"} ELSE {})

EnvNames(s) ==
    {"FRESHER_ITERATION", "FRESHER_LAST_EXIT_CODE", "FRESHER_TOTAL_COMMITS",
     "FRESHER_DURATION", "FRESHER_TOTAL_ITERATIONS"}
        \cup (IF s.last_commit_sha # NoSha THEN {"FRESHER_LAST_COMMIT_SHA"} ELSE {})
        \cup (IF s.finish_type # NoFinish THEN {"FRESHER_FINISH_TYPE"} ELSE {})

to_env_vars(s) ==
    [n \in EnvNames(s) |->
        CASE n = "FRESHER_ITERATION" -> s.iteration
          [] n = "FRESHER_LAST_EXIT_CODE" -> s.last_exit_code
          [] n = "FRESHER_TOTAL_COMMITS" -> s.total_commits
          [] n = "FRESHER_DURATION" -> s.duration
          [] n = "FRESHER_TOTAL_ITERATIONS" -> s.iteration
          [] n = "FRESHER_LAST_COMMIT_SHA" -> s.last_commit_sha
          [] n = "FRESHER_FINISH_TYPE" -> s.finish_type]

NoHook == [name |-> "none"]

\* The record of one run_hook call kept in `hook`
HookCall(name, in, s) ==
    [name |-> name, result |-> run_hook(config.hooks_enabled, in),
     executed |-> hook_executes(config.hooks_enabled, in),
     env |-> to_env_vars(s)]

----------------------------------------------------------------------------
\* commands/build.rs: run

Terminal == {"done", "aborted", "failed"}

\* checkpoint_decision with the ceiling checked before the interrupt flag
checkpoint_decision_CeilingFirst(stop, cfg, s, pending) ==
    IF cfg.max_iterations > 0 /\ s.iteration >= cfg.max_iterations
        THEN "max_iterations"
    ELSE IF stop THEN "manual"
    ELSE IF ~pending THEN "complete"
    ELSE "start"

\* checkpoint_decision with an off-by-one ceiling test
checkpoint_decision_OffByOne(stop, cfg, s, pending) ==
    IF stop THEN "manual"
    ELSE IF cfg.max_iterations > 0 /\ s.iteration > cfg.max_iterations
        THEN "max_iterations"
    ELSE IF ~pending THEN "complete"
    ELSE "start"

\* checkpoint_decision that does not read the interrupt flag
checkpoint_decision_IgnoreStop(stop, cfg, s, pending) ==
    IF cfg.max_iterations > 0 /\ s.iteration >= cfg.max_iterations
        THEN "max_iterations"
    ELSE IF ~pending THEN "complete"
    ELSE "start"

\* checkpoint_decision without the iteration ceiling
checkpoint_decision_NoCeiling(stop, cfg, s, pending) ==
    IF stop THEN "manual"
    ELSE IF ~pending THEN "complete"
    ELSE "start"

\* The checks at the head of the main loop, in the order of the code
checkpoint_decision(stop, cfg, s, pending) ==
    IF stop THEN "manual"
    ELSE IF cfg.max_iterations > 0 /\ s.iteration >= cfg.max_iterations
        THEN "max_iterations"
    ELSE IF ~pending THEN "complete"
    ELSE "start"

\* after_iteration with the no-change check ahead of the exit-code check
after_iteration_SmartFirst(cfg, exit_code, current_sha, s, commits_this_iteration) ==
    IF cfg.smart_termination /\ current_sha = s.iteration_sha
            /\ commits_this_iteration = 0
        THEN "no_changes"
    ELSE IF exit_code # 0 THEN "error"
    ELSE "loop"

\* after_iteration without the revision comparison
after_iteration_IgnoreSha(cfg, exit_code, current_sha, s, commits_this_iteration) ==
    IF exit_code # 0 THEN "error"
    ELSE IF cfg.smart_termination /\ commits_this_iteration = 0
        THEN "no_changes"
    ELSE "loop"

\* The checks after complete_iteration and save
after_iteration(cfg, exit_code, current_sha, s, commits_this_iteration) ==
    IF exit_code # 0 THEN "error"
    ELSE IF cfg.smart_termination /\ current_sha = s.iteration_sha
                /\ commits_this_iteration = 0
        THEN "no_changes"
    ELSE "loop"

\* No library call is in progress during a build run
NoCall == [fn |-> "none"]

\* A stale record left in .fresher/.state by an earlier run
StaleRecord ==
    [StateDefault(0) EXCEPT !.iteration = 2, !.finish_type = "complete",
                            !.total_commits = 1, !.last_commit_sha = 1]

Init ==
    /\ pc = "started_hook"
    /\ now = 0
    /\ state = StateDefault(0)
    /\ saved \in {NoRecord, StaleRecord}
    /\ config \in [max_iterations : 0..MaxIter, smart_termination : BOOLEAN,
                   hooks_enabled : BOOLEAN]
    /\ should_stop = FALSE
    /\ chain \in {<<>>, <<1>>}
    /\ planPending \in BOOLEAN
    /\ worker = [alive |-> FALSE, spawned |-> 0, exit_code |-> 0, is_error |-> FALSE]
    /\ hook = NoHook
    /\ calls = [started |-> 0, next_iteration |-> 0, finished |-> 0]
    /\ iteration_sha = NoSha
    /\ call = NoCall

CountCall(name) == [calls EXCEPT ![name] = @ + 1]

\* StartedHook that resumes from the record an earlier run left
StartedHook_ResumesRecord ==
    /\ pc = "started_hook"
    /\ \E in \in EngineHookInputs :
        LET h == HookCall("started", in, state)
            go == run_started_hook(h.result)
        IN /\ hook' = h
           /\ calls' = CountCall("started")
           /\ pc' = IF go = "err" THEN "failed"
                    ELSE IF go = "false" THEN "aborted"
                    ELSE "checkpoint"
    /\ state' = IF saved # NoRecord THEN saved ELSE state
    /\ UNCHANGED <<call, saved, config, should_stop, now, chain,
                   planPending, worker, iteration_sha>>

\* lines 64-67, and the Ctrl+C task set up when the hook lets the run go on
StartedHook ==
    /\ pc = "started_hook"
    /\ \E in \in EngineHookInputs :
        LET h == HookCall("started", in, state)
            go == run_started_hook(h.result)
        IN /\ hook' = h
           /\ calls' = CountCall("started")
           /\ pc' = IF go = "err" THEN "failed"
                    ELSE IF go = "false" THEN "aborted"
                    ELSE "checkpoint"
    /\ UNCHANGED <<call, state, saved, config, should_stop, now, chain,
                   planPending, worker, iteration_sha>>

\* lines 73-77: the signal task stores true into should_stop
Interrupt ==
    /\ pc \notin Terminal \cup {"started_hook"}
    /\ ~should_stop
    /\ should_stop' = TRUE
    /\ UNCHANGED <<call, pc, state, saved, config, now, chain, planPending,
                   worker, hook, calls, iteration_sha>>

\* Utc::now() advances
Tick ==
    /\ pc \notin Terminal
    /\ now < MaxClock
    /\ now' = now + 1
    /\ UNCHANGED <<call, pc, state, saved, config, should_stop, chain,
                   planPending, worker, hook, calls, iteration_sha>>

\* lines 80-109: the loop-boundary checkpoint up to start_iteration; the
\* ProcessResult of the pass before is out of scope
LoopHead ==
    /\ pc = "checkpoint"
    /\ LET d == checkpoint_decision(should_stop, config, state, planPending)
       IN IF d = "start"
          THEN /\ state.iteration < MaxIter
               /\ iteration_sha' = get_current_sha(chain)
               /\ state' = start_iteration(state, get_current_sha(chain), now)
               /\ pc' = "next_hook"
          ELSE /\ state' = set_finish(state, d, now)
               /\ pc' = "finalize"
               /\ UNCHANGED iteration_sha
    /\ hook' = NoHook
    /\ worker' = [worker EXCEPT !.is_error = FALSE]
    /\ UNCHANGED <<call, saved, config, should_stop, now, chain, planPending, calls>>

\* lines 111-123
NextIterationHook ==
    /\ pc = "next_hook"
    /\ \E in \in EngineHookInputs :
        LET h == HookCall("next_iteration", in, state)
            r == run_next_iteration_hook(h.result)
        IN /\ hook' = h
           /\ calls' = CountCall("next_iteration")
           /\ IF ~r.ok THEN pc' = "failed" /\ UNCHANGED state
              ELSE IF ~r.should_continue
                  THEN state' = set_finish(state, "manual", now) /\ pc' = "finalize"
              ELSE IF r.should_skip THEN pc' = "checkpoint" /\ UNCHANGED state
              ELSE pc' = "spawn" /\ UNCHANGED state
    /\ UNCHANGED <<call, saved, config, should_stop, now, chain, planPending,
                   worker, iteration_sha>>

\* lines 125-127 and 205-232: get_prompt and cmd.spawn(), either of which can fail
SpawnWorker ==
    /\ pc = "spawn"
    /\ \E ok \in BOOLEAN :
        IF ok THEN /\ worker' = [worker EXCEPT !.alive = TRUE, !.spawned = @ + 1]
                   /\ pc' = "worker"
        ELSE pc' = "failed" /\ UNCHANGED worker
    /\ hook' = NoHook
    /\ UNCHANGED <<call, state, saved, config, should_stop, now, chain,
                   planPending, calls, iteration_sha>>

\* The worker commits: a new revision on top of HEAD
WorkerCommit ==
    /\ pc = "worker"
    /\ Len(chain) < MaxRev
    /\ chain' = Append(chain, Len(chain) + 1)
    /\ UNCHANGED <<call, pc, state, saved, config, should_stop, now, planPending,
                   worker, hook, calls, iteration_sha>>

\* The worker ticks the last pending checkbox of the plan
WorkerCompletesTask ==
    /\ pc = "worker"
    /\ planPending
    /\ planPending' = FALSE
    /\ UNCHANGED <<call, pc, state, saved, config, should_stop, now, chain,
                   worker, hook, calls, iteration_sha>>

\* WorkerExit that goes on once the stream ends, without child.wait()
WorkerExit_NoWait ==
    /\ pc = "worker"
    /\ \E code \in WorkerExitCodes, is_error \in BOOLEAN :
        worker' = [worker EXCEPT !.exit_code = code, !.is_error = is_error]
    /\ pc' = "record"
    /\ UNCHANGED <<call, state, saved, config, should_stop, now, chain,
                   planPending, hook, calls, iteration_sha>>

\* lines 238-246: the stream ends with the is_error of its last Result event
\* (false without one) and child.wait() returns the exit status
WorkerExit ==
    /\ pc = "worker"
    /\ \E code \in WorkerExitCodes, is_error \in BOOLEAN :
        worker' = [worker EXCEPT !.alive = FALSE, !.exit_code = code,
                                 !.is_error = is_error]
    /\ pc' = "record"
    /\ UNCHANGED <<call, state, saved, config, should_stop, now, chain,
                   planPending, hook, calls, iteration_sha>>

\* line 238: process_stream fails on an I/O error of the pipe and run returns Err
WorkerStreamError ==
    /\ pc = "worker"
    /\ pc' = "failed"
    /\ UNCHANGED <<call, state, saved, config, should_stop, now, chain,
                   planPending, worker, hook, calls, iteration_sha>>

\* RecordIteration that reads the interrupt flag before recording the result
RecordIteration_StopFirst ==
    /\ pc = "record"
    /\ LET commits_this_iteration ==
               IF iteration_sha # NoSha
               THEN count_commits_since(iteration_sha, chain) ELSE 0
           s1 == complete_iteration(state, worker.exit_code, commits_this_iteration,
                                    get_current_sha(chain), now)
           d == after_iteration(config, worker.exit_code, get_current_sha(chain),
                                s1, commits_this_iteration)
       IN IF should_stop
          THEN /\ state' = set_finish(state, "manual", now)
               /\ pc' = "finalize"
               /\ UNCHANGED saved
          ELSE \E saveOk \in BOOLEAN :
            IF ~saveOk
            THEN state' = s1 /\ pc' = "failed" /\ UNCHANGED saved
            ELSE /\ saved' = s1
                 /\ IF d = "loop" THEN state' = s1 /\ pc' = "checkpoint"
                    ELSE state' = set_finish(s1, d, now) /\ pc' = "finalize"
    /\ UNCHANGED <<call, config, should_stop, now, chain, planPending,
                   worker, hook, calls, iteration_sha>>

\* RecordIteration without the break after set_finish(Error)
RecordIteration_NoBreak ==
    /\ pc = "record"
    /\ LET commits_this_iteration ==
               IF iteration_sha # NoSha
               THEN count_commits_since(iteration_sha, chain) ELSE 0
           s1 == complete_iteration(state, worker.exit_code, commits_this_iteration,
                                    get_current_sha(chain), now)
           d == after_iteration(config, worker.exit_code, get_current_sha(chain),
                                s1, commits_this_iteration)
       IN \E saveOk \in BOOLEAN :
            IF ~saveOk
            THEN state' = s1 /\ pc' = "failed" /\ UNCHANGED saved
            ELSE /\ saved' = s1
                 /\ IF d = "loop" THEN state' = s1 /\ pc' = "checkpoint"
                    ELSE IF d = "error"
                        THEN state' = set_finish(s1, d, now) /\ pc' = "checkpoint"
                    ELSE state' = set_finish(s1, d, now) /\ pc' = "finalize"
    /\ UNCHANGED <<call, config, should_stop, now, chain, planPending,
                   worker, hook, calls, iteration_sha>>

\* RecordIteration that also finishes as Error on the is_error of the stream
RecordIteration_ResultError ==
    /\ pc = "record"
    /\ LET commits_this_iteration ==
               IF iteration_sha # NoSha
               THEN count_commits_since(iteration_sha, chain) ELSE 0
           s1 == complete_iteration(state, worker.exit_code, commits_this_iteration,
                                    get_current_sha(chain), now)
           d == IF worker.is_error THEN "error"
                ELSE after_iteration(config, worker.exit_code, get_current_sha(chain),
                                     s1, commits_this_iteration)
       IN \E saveOk \in BOOLEAN :
            IF ~saveOk
            THEN state' = s1 /\ pc' = "failed" /\ UNCHANGED saved
            ELSE /\ saved' = s1
                 /\ IF d = "loop" THEN state' = s1 /\ pc' = "checkpoint"
                    ELSE state' = set_finish(s1, d, now) /\ pc' = "finalize"
    /\ UNCHANGED <<call, config, should_stop, now, chain, planPending,
                   worker, hook, calls, iteration_sha>>

\* lines 129-165: record the iteration, save, then the error and no-change checks
RecordIteration ==
    /\ pc = "record"
    /\ LET commits_this_iteration ==
               IF iteration_sha # NoSha
               THEN count_commits_since(iteration_sha, chain) ELSE 0
           s1 == complete_iteration(state, worker.exit_code, commits_this_iteration,
                                    get_current_sha(chain), now)
           d == after_iteration(config, worker.exit_code, get_current_sha(chain),
                                s1, commits_this_iteration)
       IN \E saveOk \in BOOLEAN :
            IF ~saveOk
            THEN state' = s1 /\ pc' = "failed" /\ UNCHANGED saved
            ELSE /\ saved' = s1
                 /\ IF d = "loop" THEN state' = s1 /\ pc' = "checkpoint"
                    ELSE state' = set_finish(s1, d, now) /\ pc' = "finalize"
    /\ UNCHANGED <<call, config, should_stop, now, chain, planPending,
                   worker, hook, calls, iteration_sha>>

\* Finalize returning without the finished hook
Finalize_NoHook ==
    /\ pc = "finalize"
    /\ state' = update_duration(state, now)
    /\ \E saveOk \in BOOLEAN :
        IF saveOk THEN saved' = state' /\ pc' = "done"
        ELSE pc' = "failed" /\ UNCHANGED saved
    /\ worker' = [worker EXCEPT !.is_error = FALSE]
    /\ UNCHANGED <<call, config, should_stop, now, chain, planPending,
                   hook, calls, iteration_sha>>

\* Finalize that goes on to the finished hook without the save
Finalize_NoSave ==
    /\ pc = "finalize"
    /\ state' = update_duration(state, now)
    /\ pc' = "finished_hook"
    /\ worker' = [worker EXCEPT !.is_error = FALSE]
    /\ UNCHANGED <<call, saved, config, should_stop, now, chain, planPending,
                   hook, calls, iteration_sha>>

\* lines 167-169: update_duration and save, past the scope of the loop's
\* ProcessResult
Finalize ==
    /\ pc = "finalize"
    /\ state' = update_duration(state, now)
    /\ \E saveOk \in BOOLEAN :
        IF saveOk THEN saved' = state' /\ pc' = "finished_hook"
        ELSE pc' = "failed" /\ UNCHANGED saved
    /\ worker' = [worker EXCEPT !.is_error = FALSE]
    /\ UNCHANGED <<call, config, should_stop, now, chain, planPending,
                   hook, calls, iteration_sha>>

\* lines 171-186: the finished hook, the summary and Ok(())
FinishedHook ==
    /\ pc = "finished_hook"
    /\ \E in \in EngineHookInputs :
        LET h == HookCall("finished", in, state)
        IN /\ hook' = h
           /\ calls' = CountCall("finished")
           /\ pc' = IF run_finished_hook(h.result) THEN "done" ELSE "failed"
    /\ UNCHANGED <<call, state, saved, config, should_stop, now, chain,
                   planPending, worker, iteration_sha>>

Next ==
    \/ StartedHook
    \/ Interrupt
    \/ Tick
    \/ LoopHead
    \/ NextIterationHook
    \/ SpawnWorker
    \/ WorkerCommit
    \/ WorkerCompletesTask
    \/ WorkerExit
    \/ WorkerStreamError
    \/ RecordIteration
    \/ Finalize
    \/ FinishedHook

Spec == Init /\ [][Next]_vars

TypeOK ==
    /\ pc \in {"started_hook", "checkpoint", "next_hook", "spawn", "worker",
               "record", "finalize", "finished_hook"} \cup Terminal
    /\ state.finish_type \in FinishTypes \cup {NoFinish}
    /\ state.iteration \in 0..MaxIter
    /\ should_stop \in BOOLEAN

----------------------------------------------------------------------------
\* run_hook on its own: one call for every hook name, configuration and hook file

HookNames == {"started", "next_iteration", "finished"}

InitHook ==
    /\ pc = "run_hook"
    /\ now = 0
    /\ state = StateDefault(0)
    /\ saved = NoRecord
    /\ config \in [max_iterations : {0}, smart_termination : {TRUE},
                   hooks_enabled : BOOLEAN]
    /\ should_stop = FALSE
    /\ chain = <<>>
    /\ planPending = TRUE
    /\ worker = [alive |-> FALSE, spawned |-> 0, exit_code |-> 0, is_error |-> FALSE]
    /\ hook \in [name : {"none"}, hook_name : HookNames, input : HookInputs]
    /\ calls = [started |-> 0, next_iteration |-> 0, finished |-> 0]
    /\ iteration_sha = NoSha
    /\ call = NoCall

RunHook ==
    /\ pc = "run_hook"
    /\ hook' = [name |-> hook.hook_name, input |-> hook.input,
                result |-> run_hook(config.hooks_enabled, hook.input),
                executed |-> hook_executes(config.hooks_enabled, hook.input),
                env |-> to_env_vars(state)]
    /\ calls' = CountCall(hook.hook_name)
    /\ pc' = "hook_returned"
    /\ UNCHANGED <<call, state, saved, config, should_stop, now, chain,
                   planPending, worker, iteration_sha>>

NextHook == RunHook

SpecHook == InitHook /\ [][NextHook]_vars

----------------------------------------------------------------------------
\* Properties of the iteration engine

InLoop == {"checkpoint", "next_hook", "spawn", "worker", "record"}
AfterLoop == {"finalize", "finished_hook", "done"}
HookKinds == {"Continue", "Skip", "Abort", "NotFound", "Timeout", "Error"}

\* A step of run that leaves the position `at`
RunStepFrom(at) == pc = at /\ pc' # at

\* C1: in a run that reaches a finish the finished hook is invoked exactly once:
\* never twice, never while the loop is still iterating or a worker is alive,
\* never before a finish type is set, and a run that returns from the end of
\* run has invoked it once.  (A fatal I/O error in the final save or in the
\* hook's metadata read ends the run at "failed" instead.)
C1_FinishedHookOnce ==
    /\ calls.finished <= 1
    /\ calls.finished = 1 =>
          /\ state.finish_type \in FinishTypes
          /\ pc \in {"done", "failed"}
          /\ ~worker.alive
    /\ pc = "finished_hook" => state.finish_type \in FinishTypes /\ calls.finished = 0
    /\ pc \in InLoop \cup {"finalize"} => calls.finished = 0
    /\ pc = "done" => calls.finished = 1 /\ hook.name = "finished"

C1_Witness ==
    /\ pc = "done"
    /\ calls.finished = 1
    /\ state.finish_type = "no_changes"
    /\ state.iteration = 2

\* C2: after the loop finish_type is one of the five finish types, inside the
\* loop (and before it) it is unset, and once set it never changes.
C2_FinishTypeSetOnce ==
    /\ [](/\ pc \in AfterLoop => state.finish_type \in FinishTypes
          /\ pc \in InLoop \cup {"started_hook", "aborted"} => state.finish_type = NoFinish)
    /\ [][state.finish_type # NoFinish => state'.finish_type = state.finish_type]_vars

C2_Witness ==
    /\ pc = "done"
    /\ state.finish_type = "error"
    /\ should_stop
    /\ ~planPending

\* C3: a step of the checkpoint finishes as Manual whenever the interrupt flag is
\* set, as MaxIterations whenever the flag is clear and the ceiling is reached, as
\* Complete whenever both pass and nothing is pending, and calls start_iteration
\* only when all three checks pass.
C3_CheckpointOrder ==
    [][RunStepFrom("checkpoint") =>
        LET ceiling == config.max_iterations > 0
                          /\ state.iteration >= config.max_iterations
        IN /\ should_stop =>
                state'.finish_type = "manual" /\ pc' = "finalize"
           /\ ~should_stop /\ ceiling =>
                state'.finish_type = "max_iterations" /\ pc' = "finalize"
           /\ ~should_stop /\ ~ceiling /\ ~planPending =>
                state'.finish_type = "complete" /\ pc' = "finalize"
           /\ state'.iteration # state.iteration =>
                /\ ~should_stop /\ ~ceiling /\ planPending
                /\ state'.iteration = state.iteration + 1
                /\ pc' = "next_hook"
           /\ pc' = "finalize" => state'.iteration = state.iteration]_vars

\* Manual decided at the checkpoint although the ceiling is reached and no work is pending
C3_Witness ==
    /\ pc = "finalize"
    /\ hook = NoHook
    /\ state.finish_type = "manual"
    /\ config.max_iterations > 0
    /\ state.iteration >= config.max_iterations
    /\ ~planPending

\* C4: with max_iterations = N > 0 the iteration counter and the number of
\* workers spawned never exceed N; with max_iterations = 0 the run never
\* finishes as MaxIterations.
C4_IterationCeiling ==
    /\ config.max_iterations > 0 =>
          /\ state.iteration <= config.max_iterations
          /\ worker.spawned <= config.max_iterations
    /\ config.max_iterations = 0 => state.finish_type # "max_iterations"

C4_Witness ==
    /\ config.max_iterations = 1
    /\ state.iteration = 1
    /\ worker.spawned = 1
    /\ state.finish_type = "max_iterations"
    /\ planPending

\* C5: a step that records a worker's non-zero exit code stores the code in
\* State.last_exit_code, persists the record with that code before any finish
\* type is set, and finishes the run as Error without starting another iteration,
\* whatever smart termination and the commit count are; once the run has finished
\* as Error no iteration starts and no worker is spawned.  (A failing save ends
\* the run at "failed" instead.)
C5_NonZeroExitIsError ==
    /\ [][RunStepFrom("record") /\ worker.exit_code # 0 =>
            /\ state'.last_exit_code = worker.exit_code
            /\ state'.iteration = state.iteration
            /\ pc' # "failed" =>
                 /\ pc' = "finalize"
                 /\ state'.finish_type = "error"
                 /\ saved'.last_exit_code = worker.exit_code
                 /\ saved'.iteration = state.iteration
                 /\ saved'.finish_type = NoFinish]_vars
    /\ [][state.finish_type = "error" =>
            /\ state'.iteration = state.iteration
            /\ worker'.spawned = worker.spawned]_vars
    /\ [](state.finish_type = "error" => state.last_exit_code # 0)

\* Error although smart termination is on and the iteration changed nothing
C5_Witness ==
    /\ pc = "finalize"
    /\ state.finish_type = "error"
    /\ state.last_exit_code = -1
    /\ config.smart_termination
    /\ state.total_commits = 0
    /\ get_current_sha(chain) = iteration_sha

\* C6: a step that records a worker's exit code 0 finishes the run as NoChanges
\* exactly when smart termination is enabled, HEAD is the revision snapshotted
\* at the iteration start and no commit was counted for the iteration, and goes
\* back to the checkpoint otherwise; without smart termination finish_type is
\* never NoChanges.  (A failing save ends the run at "failed" instead.)
C6_NoChangesIff ==
    /\ [][RunStepFrom("record") /\ worker.exit_code = 0 /\ pc' # "failed" =>
            LET commits == state'.total_commits - state.total_commits
                unchanged == /\ config.smart_termination
                             /\ get_current_sha(chain) = iteration_sha
                             /\ commits = 0
            IN IF unchanged
               THEN pc' = "finalize" /\ state'.finish_type = "no_changes"
               ELSE pc' = "checkpoint" /\ state'.finish_type = NoFinish]_vars
    /\ [](~config.smart_termination => state.finish_type # "no_changes")
    /\ [](state.finish_type = "no_changes" => state.last_exit_code = 0)

\* NoChanges in the second iteration, after a first one that committed
C6_Witness ==
    /\ pc = "finalize"
    /\ state.finish_type = "no_changes"
    /\ state.iteration = 2
    /\ state.total_commits = 1

\* The first commit of a repository that had none at the iteration start: no
\* commit is counted, the revision differs, and the loop goes on
C6_WitnessFirstCommit ==
    /\ pc = "checkpoint"
    /\ config.smart_termination
    /\ worker.spawned = 1
    /\ state.total_commits = 0
    /\ state.last_exit_code = 0
    /\ iteration_sha = NoSha
    /\ get_current_sha(chain) # NoSha

\* C7: a next_iteration hook that returns Continue, NotFound, Timeout or Error
\* leads to the worker spawn of that iteration; Skip leads back to the checkpoint
\* with no worker spawned and no finish set; Abort finishes the run as Manual with
\* no worker spawned.  The spawn step then starts one worker (or ends the run at
\* "failed" when the prompt cannot be read or the process cannot be started).
C7_NextIterationHookSignals ==
    /\ [][RunStepFrom("next_hook") /\ hook'.result.kind \in HookKinds =>
            /\ hook'.name = "next_iteration"
            /\ worker' = worker
            /\ state'.iteration = state.iteration
            /\ hook'.result.kind \in {"Continue", "NotFound", "Timeout", "Error"} =>
                 pc' = "spawn" /\ state'.finish_type = NoFinish
            /\ hook'.result.kind = "Skip" =>
                 pc' = "checkpoint" /\ state'.finish_type = NoFinish
            /\ hook'.result.kind = "Abort" =>
                 pc' = "finalize" /\ state'.finish_type = "manual"]_vars
    /\ [][RunStepFrom("spawn") =>
            \/ pc' = "failed" /\ worker' = worker
            \/ /\ pc' = "worker"
               /\ worker'.alive
               /\ worker'.spawned = worker.spawned + 1]_vars
    /\ [](worker.spawned <= state.iteration)

\* A skipped first iteration: back at the checkpoint, nothing spawned, nothing finished
C7_Witness ==
    /\ pc = "checkpoint"
    /\ hook.name = "next_iteration"
    /\ hook.result.kind = "Skip"
    /\ state.iteration = 1
    /\ worker.spawned = 0
    /\ state.finish_type = NoFinish

\* A worker running after the hook of the second iteration timed out or failed
C7_WitnessProceed ==
    /\ pc = "spawn"
    /\ hook.name = "next_iteration"
    /\ hook.result.kind \in {"Timeout", "Error"}
    /\ state.iteration = 2

\* C8: the started hook is invoked exactly once, before any iteration; on Abort
\* the run stops with State.iteration = 0, no next_iteration hook, no worker and
\* no finished hook; on Continue, NotFound, Skip, Timeout and Error the run goes
\* to its first checkpoint.
C8_StartedHook ==
    /\ [](/\ calls.started <= 1
          /\ pc # "started_hook" => calls.started = 1
          /\ pc \in {"started_hook", "aborted"} =>
                /\ state.iteration = 0
                /\ calls.next_iteration = 0
                /\ worker.spawned = 0
                /\ calls.finished = 0
          /\ pc = "started_hook" => calls.started = 0
          /\ pc = "aborted" => hook.name = "started" /\ hook.result.kind = "Abort")
    /\ [][RunStepFrom("started_hook") /\ hook'.result.kind \in HookKinds =>
            /\ hook'.name = "started"
            /\ state' = state
            /\ hook'.result.kind = "Abort" => pc' = "aborted"
            /\ hook'.result.kind # "Abort" => pc' = "checkpoint"]_vars

C8_Witness ==
    /\ pc = "aborted"
    /\ calls.started = 1
    /\ hook.result.kind = "Abort"

\* The run at its first checkpoint after the started hook asked for a skip
C8_WitnessSkip ==
    /\ pc = "checkpoint"
    /\ hook.name = "started"
    /\ hook.result.kind = "Skip"
    /\ state.iteration = 0

\* C10: whatever the finished hook returns (Continue, Skip, Abort, NotFound,
\* Timeout, Error), run returns Ok and the State, its finish_type and the
\* persisted record are what they were before the hook.
C10_FinishedHookObservesOnly ==
    [][RunStepFrom("finished_hook") /\ hook'.result.kind \in HookKinds =>
        /\ hook'.name = "finished"
        /\ pc' = "done"
        /\ state' = state
        /\ saved' = saved]_vars

C10_Witness ==
    /\ pc = "done"
    /\ hook.name = "finished"
    /\ hook.result.kind = "Abort"
    /\ state.finish_type = "complete"
    /\ saved = state

IsDigit(c) == \E d \in 0..9 : Digit(d) = c

\* The natural number a sequence of digit characters denotes
RECURSIVE ParseDecimal(_)
ParseDecimal(ds) ==
    IF Len(ds) = 0 THEN 0
    ELSE 10 * ParseDecimal(SubSeq(ds, 1, Len(ds) - 1))
            + (CHOOSE d \in 0..9 : Digit(d) = ds[Len(ds)])

\* msg contains the decimal numeral of the natural number n
ContainsNumber(msg, n) ==
    \E i \in 1..Len(msg) : \E j \in i..Len(msg) :
        /\ \A k \in i..j : IsDigit(msg[k])
        /\ ParseDecimal(SubSeq(msg, i, j)) = n

\* C9: run_hook gives NotFound, running nothing, when hooks are disabled, the
\* hook file is absent or the file is not executable; for a hook that runs, exit
\* code 0 gives Continue, 1 Skip, 2 Abort, any other exit code an Error whose
\* message contains the code, and an overrun of the timeout gives Timeout.
C9_RunHookMapping ==
    pc = "hook_returned" =>
        LET in == hook.input
            r == hook.result
            runs == config.hooks_enabled /\ in.exists /\ in.metaOk /\ in.executable
        IN /\ ~config.hooks_enabled \/ ~in.exists =>
                r.kind = "NotFound" /\ ~hook.executed
           /\ config.hooks_enabled /\ in.exists /\ in.metaOk /\ ~in.executable =>
                r.kind = "NotFound" /\ ~hook.executed
           /\ runs /\ in.outcome.kind = "exit" =>
                /\ hook.executed
                /\ in.outcome.code = 0 => r.kind = "Continue"
                /\ in.outcome.code = 1 => r.kind = "Skip"
                /\ in.outcome.code = 2 => r.kind = "Abort"
                /\ in.outcome.code \notin {0, 1, 2} =>
                     r.kind = "Error" /\ ContainsNumber(r.msg, in.outcome.code)
           /\ runs /\ in.outcome.kind = "timeout" => r.kind = "Timeout"
           /\ r.kind \in HookKinds \cup {"Err"}
           /\ r.kind = "Err" => config.hooks_enabled /\ in.exists /\ ~in.metaOk

\* Exit code 99 reported as an Error that names 99
C9_Witness ==
    /\ pc = "hook_returned"
    /\ hook.input.outcome = [kind |-> "exit", code |-> 99]
    /\ hook.result.kind = "Error"
    /\ hook.executed
    /\ ContainsNumber(hook.result.msg, 99)


\* ---------------------------------------------------------------------------
\* C11: every mutation of State (start_iteration, complete_iteration,
\* set_finish) is saved before the engine's next externally visible step:
\* whenever the engine is about to invoke the next_iteration hook, to spawn a
\* worker, to invoke the finished hook, or has returned normally, the
\* persisted record equals the in-memory State.
ExternallyVisible == {"next_hook", "spawn", "finished_hook", "done"}

C11_SavedNeverLags ==
    pc \in ExternallyVisible => saved = state

\* ---------------------------------------------------------------------------
\* C12: at most one worker is alive at any time. A worker lives only while the
\* engine waits for it (the run may also have failed on its stream), so none
\* is alive when the next one is spawned; and at every boundary checkpoint,
\* next_iteration hook, finalization and finished hook after a worker ran,
\* that worker has exited and its exit code is the one recorded in the State
\* and in the persisted record.
BetweenWorkers == {"checkpoint", "next_hook", "spawn", "finalize",
                   "finished_hook", "done"}

C12_OneWorkerAtATime ==
    /\ worker.alive => pc \in {"worker", "failed"}
    /\ (pc \in BetweenWorkers /\ worker.spawned > 0) =>
          /\ ~worker.alive
          /\ state.last_exit_code = worker.exit_code
          /\ saved.last_exit_code = worker.exit_code
          /\ state.iteration >= worker.spawned

\* A second worker is about to be spawned after the first one was recorded
C12_Witness ==
    /\ pc = "spawn"
    /\ worker.spawned = 1
    /\ ~worker.alive
    /\ state.iteration = 2
    /\ saved.iteration = 1

\* ---------------------------------------------------------------------------
\* C13: the interrupt flag is read only at the loop-boundary checkpoint. With
\* the flag set while an iteration is in progress, the hook step, the spawn
\* and the worker go on as without it, and the recording step still completes
\* the iteration (exit code, commit count and new head recorded) and saves it,
\* unless the save itself fails. A Manual finish is set only by the checkpoint
\* that reads the flag or by a next_iteration hook that stops the run, and the
\* checkpoint that finds the flag set always finishes Manual.
InIteration == {"next_hook", "spawn", "worker", "record"}

C13_Recorded ==
    LET commits == IF iteration_sha # NoSha
                   THEN count_commits_since(iteration_sha, chain) ELSE 0
        s1 == complete_iteration(state, worker.exit_code, commits,
                                 get_current_sha(chain), now)
    IN /\ state'.last_exit_code = worker.exit_code
       /\ state'.total_commits = state.total_commits + commits
       /\ commits > 0 => state'.last_commit_sha = get_current_sha(chain)
       /\ pc' # "failed" => saved' = s1

C13_InterruptOnlyAtCheckpoint ==
    [][/\ (RunStepFrom("record") /\ should_stop) => C13_Recorded
       /\ (RunStepFrom("worker") /\ should_stop) => pc' \in {"record", "failed"}
       /\ (RunStepFrom("spawn") /\ should_stop) => pc' \in {"worker", "failed"}
       /\ (pc \in InIteration /\ should_stop /\ pc' = "finalize"
              /\ state'.finish_type = "manual") =>
             /\ pc = "next_hook"
             /\ ~run_next_iteration_hook(hook'.result).should_continue
       /\ (state.finish_type = NoFinish /\ state'.finish_type = "manual") =>
             \/ pc = "checkpoint" /\ should_stop
             \/ /\ pc = "next_hook"
                /\ ~run_next_iteration_hook(hook'.result).should_continue
       /\ (RunStepFrom("checkpoint") /\ should_stop) =>
             state'.finish_type = "manual" /\ pc' = "finalize"]_vars

\* The flag was set during the first iteration, whose result is recorded and
\* saved all the same; the next checkpoint is the first to read it
C13_Witness ==
    /\ pc = "checkpoint"
    /\ should_stop
    /\ worker.spawned = 1
    /\ state.iteration = 1
    /\ state.finish_type = NoFinish
    /\ saved = state

\* ===========================================================================
\* streaming.rs: the stream classifier
\* ===========================================================================

\* Option<T>: None is the empty sequence, Some(v) the sequence of v alone
None == <<>>

Some(v) == <<v>>

unwrap_or(o, d) == IF o = None THEN d ELSE o[1]

\* A string is named by its text; Utf8 gives its characters in order as runs
\* of n characters of w bytes each (the tool previews slice by byte index)
Run(n, w) == [n |-> n, w |-> w]

Utf8(str) ==
    CASE str = "" -> <<>>
      [] str = "ls" -> <<Run(2, 1)>>
      [] str = "long ascii command" -> <<Run(101, 1)>>
      [] str = "99 ascii bytes, then e-acute" -> <<Run(99, 1), Run(1, 2), Run(1, 1)>>
      [] str = "long ascii output" -> <<Run(201, 1)>>
      [] str = "199 ascii bytes, then e-acute" -> <<Run(199, 1), Run(1, 2), Run(1, 1)>>
      [] OTHER -> <<Run(4, 1)>>

\* The bytes of the runs from the k-th on
RECURSIVE BytesFrom(_, _)
BytesFrom(chars, k) ==
    IF k > Len(chars) THEN 0
    ELSE chars[k].n * chars[k].w + BytesFrom(chars, k + 1)

\* str::len, in bytes
ByteLen(chars) == BytesFrom(chars, 1)

\* Whether a character starts `index` bytes after the start of the k-th run
RECURSIVE BoundaryFrom(_, _, _)
BoundaryFrom(chars, k, index) ==
    IF index = 0 THEN TRUE
    ELSE IF k > Len(chars) THEN FALSE
    ELSE IF index < chars[k].n * chars[k].w THEN index % chars[k].w = 0
    ELSE BoundaryFrom(chars, k + 1, index - chars[k].n * chars[k].w)

\* str::is_char_boundary: index is the start of a character or the end
is_char_boundary(chars, index) == BoundaryFrom(chars, 1, index)

\* format!("{}...", &s[..limit]) when s.len() > limit, else the string itself;
\* the slice panics when limit is not a character boundary
preview(str, limit) ==
    IF ByteLen(Utf8(str)) > limit
    THEN IF is_char_boundary(Utf8(str), limit) THEN "truncated" ELSE "panic"
    ELSE "whole"

\* The worker's output lines. A line is its surrounding whitespace (pad) and
\* its body: empty, text that is not JSON, or one JSON object given by its
\* "type" member (None when absent), whether its other members have the
\* types the event declares, and those members.
NotJson == [json |-> FALSE]

Json(type, typed, members) ==
    [json |-> TRUE, type |-> type, typed |-> typed, members |-> members]

LineIds == {"empty", "spaces", "garbage", "no_type", "bad_result", "new_type",
            "system", "result_full", "result_bare", "assistant_text",
            "bash_long", "bash_split", "tool_result_split", "block_start",
            "delta", "stop"}

Bash(cmd) == [type |-> "tool_use", name |-> "Bash", input |-> [command |-> cmd]]

Line(id) ==
    CASE id = "empty" -> [pad |-> FALSE, body |-> None]
      [] id = "spaces" -> [pad |-> TRUE, body |-> None]
      [] id = "garbage" -> [pad |-> FALSE, body |-> Some(NotJson)]
      [] id = "no_type" ->
            [pad |-> FALSE, body |-> Some(Json(None, TRUE, [data |-> "value"]))]
      [] id = "bad_result" ->
            [pad |-> FALSE,
             body |-> Some(Json(Some("result"), FALSE, [is_error |-> "yes"]))]
      [] id = "new_type" ->
            [pad |-> FALSE,
             body |-> Some(Json(Some("some_new_type"), TRUE, [data |-> "value"]))]
      [] id = "system" ->
            [pad |-> FALSE,
             body |-> Some(Json(Some("system"), TRUE, [subtype |-> Some("init")]))]
      [] id = "result_full" ->
            [pad |-> FALSE,
             body |-> Some(Json(Some("result"), TRUE,
                           [is_error |-> Some(TRUE), duration_ms |-> Some(1000),
                            num_turns |-> Some(5), result |-> Some("done"),
                            cost_usd |-> Some(5)]))]
      [] id = "result_bare" ->
            [pad |-> TRUE,
             body |-> Some(Json(Some("result"), TRUE,
                           [is_error |-> None, duration_ms |-> None,
                            num_turns |-> None, result |-> None,
                            cost_usd |-> None]))]
      [] id = "assistant_text" ->
            [pad |-> FALSE,
             body |-> Some(Json(Some("assistant"), TRUE,
                           [message |-> Some([content |->
                               <<[type |-> "text", text |-> "First"],
                                 Bash("ls"),
                                 [type |-> "some_unknown_type"]>>])]))]
      [] id = "bash_long" ->
            [pad |-> FALSE,
             body |-> Some(Json(Some("assistant"), TRUE,
                           [message |-> Some([content |->
                               <<Bash("long ascii command")>>])]))]
      [] id = "bash_split" ->
            [pad |-> FALSE,
             body |-> Some(Json(Some("assistant"), TRUE,
                           [message |-> Some([content |->
                               <<Bash("99 ascii bytes, then e-acute")>>])]))]
      [] id = "tool_result_split" ->
            [pad |-> FALSE,
             body |-> Some(Json(Some("user"), TRUE,
                           [message |-> Some([content |->
                               <<[type |-> "tool_result",
                                  content |-> "199 ascii bytes, then e-acute"]>>])]))]
      [] id = "block_start" ->
            [pad |-> FALSE,
             body |-> Some(Json(Some("content_block_start"), TRUE,
                           [content_block |-> Some(Bash("ls"))]))]
      [] id = "delta" ->
            [pad |-> FALSE,
             body |-> Some(Json(Some("content_block_delta"), TRUE,
                           [delta |-> Some([type |-> "text_delta"])]))]
      [] id = "stop" ->
            [pad |-> FALSE,
             body |-> Some(Json(Some("content_block_stop"), TRUE, [index |-> Some(0)]))]

\* line.trim(): the body without the surrounding whitespace
trim(line) == line.body

RecognisedTypes == {"system", "assistant", "user", "content_block_start",
                    "content_block_delta", "content_block_stop", "result"}

\* serde's tagged enum: the variant is chosen by "type", an unrecognised tag
\* gives Unknown (serde(other)); the payload keeps the declared members only
StreamEvent(type, m) ==
    CASE type = "system" -> [type |-> type, subtype |-> m.subtype]
      [] type = "assistant" -> [type |-> type, message |-> m.message]
      [] type = "user" -> [type |-> type, message |-> m.message]
      [] type = "content_block_start" ->
            [type |-> type, content_block |-> m.content_block]
      [] type = "content_block_delta" -> [type |-> type, delta |-> m.delta]
      [] type = "content_block_stop" -> [type |-> type, index |-> m.index]
      [] type = "result" ->
            [type |-> type, is_error |-> m.is_error, duration_ms |-> m.duration_ms,
             num_turns |-> m.num_turns, result |-> m.result, cost_usd |-> m.cost_usd]

Unknown == [type |-> "unknown"]

ParseError == [ok |-> FALSE]

\* parse_event without serde(other): an unrecognised tag is an error
parse_event_RejectUnknown(text) ==
    IF ~text.json \/ text.type = None THEN ParseError
    ELSE IF text.type[1] \notin RecognisedTypes THEN ParseError
    ELSE IF ~text.typed THEN ParseError
    ELSE [ok |-> TRUE, event |-> StreamEvent(text.type[1], text.members)]

\* serde_json::from_str::<StreamEvent>
parse_event(text) ==
    IF ~text.json \/ text.type = None THEN ParseError
    ELSE IF text.type[1] \notin RecognisedTypes THEN [ok |-> TRUE, event |-> Unknown]
    ELSE IF ~text.typed THEN ParseError
    ELSE [ok |-> TRUE, event |-> StreamEvent(text.type[1], text.members)]

\* StreamHandler
Handlers == [show_tool_calls : BOOLEAN, show_tool_results : BOOLEAN,
             show_text : BOOLEAN, verbose : BOOLEAN]

StreamHandlerDefault ==
    [show_tool_calls |-> TRUE, show_tool_results |-> FALSE,
     show_text |-> TRUE, verbose |-> FALSE]

CommandPreviewLimit == 100

ToolResultPreviewLimit == 200

\* What a presentation step does: the number of lines it prints, or a panic
Printed(n) == [panic |-> FALSE, printed |-> n]

Panic == [panic |-> TRUE, printed |-> 0]

\* print_tool_call: one line, after the Bash command preview
print_tool_call(name, input) ==
    IF name = "Bash" /\ "command" \in DOMAIN input
          /\ preview(input.command, CommandPreviewLimit) = "panic"
    THEN Panic ELSE Printed(1)

\* One content block of an assistant message
handle_block(self, block) ==
    CASE block.type = "text" ->
            Printed(IF self.show_text /\ block.text # "" THEN 1 ELSE 0)
      [] block.type = "tool_use" ->
            IF self.show_tool_calls THEN print_tool_call(block.name, block.input)
            ELSE Printed(0)
      [] OTHER -> Printed(0)

\* One content block of a user message
handle_user_block(self, block) ==
    IF block.type = "tool_result"
    THEN IF preview(block.content, ToolResultPreviewLimit) = "panic"
         THEN Panic ELSE Printed(1)
    ELSE Printed(0)

\* The blocks in order: a panic ends the run and nothing after it is printed
RECURSIVE ForBlocks(_, _, _)
ForBlocks(Op(_, _), self, blocks) ==
    IF blocks = <<>> THEN Printed(0)
    ELSE LET first == Op(self, Head(blocks))
             rest == ForBlocks(Op, self, Tail(blocks))
         IN IF first.panic \/ rest.panic THEN Panic
            ELSE Printed(first.printed + rest.printed)

Count(b) == IF b THEN 1 ELSE 0

handle_event(self, event) ==
    CASE event.type = "system" ->
            Printed(Count(self.verbose /\ event.subtype # None))
      [] event.type = "assistant" ->
            IF event.message = None THEN Printed(0)
            ELSE ForBlocks(handle_block, self, event.message[1].content)
      [] event.type = "user" ->
            IF self.show_tool_results /\ event.message # None
            THEN ForBlocks(handle_user_block, self, event.message[1].content)
            ELSE Printed(0)
      [] event.type = "content_block_start" ->
            Printed(Count(/\ self.verbose
                          /\ event.content_block # None
                          /\ event.content_block[1].type = "tool_use"))
      [] event.type = "result" ->
            Printed(Count(event.result # None /\ event.result[1] # ""
                             /\ self.show_text)
                    + Count(self.verbose /\ event.duration_ms # None)
                    + Count(self.verbose /\ event.cost_usd # None)
                    + Count(self.verbose /\ event.num_turns # None))
      [] event.type = "unknown" -> Printed(Count(self.verbose))
      [] OTHER -> Printed(0)

\* ProcessResult::default()
ProcessResultDefault ==
    [exit_code |-> 0, duration_ms |-> None, cost_usd |-> None,
     num_turns |-> None, is_error |-> FALSE, result_text |-> None]

\* lines 350-356, with fields kept once they are set
capture_result_KeepSet(result, e) ==
    [result EXCEPT !.duration_ms = IF e.duration_ms = None THEN @ ELSE e.duration_ms,
                   !.cost_usd = IF e.cost_usd = None THEN @ ELSE e.cost_usd,
                   !.num_turns = IF e.num_turns = None THEN @ ELSE e.num_turns,
                   !.is_error = IF e.is_error = None THEN @ ELSE e.is_error[1],
                   !.result_text = IF e.result = None THEN @ ELSE e.result]

\* lines 350-356: the summary takes the fields of a Result event
capture_result(result, e) ==
    [result EXCEPT !.duration_ms = e.duration_ms,
                   !.cost_usd = e.cost_usd,
                   !.num_turns = e.num_turns,
                   !.is_error = unwrap_or(e.is_error, FALSE),
                   !.result_text = e.result]

\* The bound on the number of lines of a stream
MaxLines == 2

Streams == UNION {[1..n -> LineIds] : n \in 0..MaxLines}

\* The loop of process_stream before its first read
StreamStart(lines, handler) ==
    [fn |-> "process_stream", lines |-> lines, handler |-> handler,
     status |-> "reading", pos |-> 1, result |-> ProcessResultDefault,
     handled |-> <<>>, printed |-> 0, warned |-> 0]

\* lines 338-364: one pass of the loop over a line that was read
read_line_pass(st, id) ==
    LET trimmed == trim(Line(id))
        next == [st EXCEPT !.pos = @ + 1]
    IN IF trimmed = None THEN next
       ELSE LET parsed == parse_event(trimmed[1])
            IN IF ~parsed.ok
               THEN [next EXCEPT !.warned = @ + Count(st.handler.verbose)]
               ELSE LET shown == handle_event(st.handler, parsed.event)
                        handed == [next EXCEPT !.handled = Append(@, parsed.event)]
                    IN IF shown.panic
                       THEN [handed EXCEPT !.status = "panic", !.pos = st.pos]
                       ELSE [handed EXCEPT
                               !.printed = @ + shown.printed,
                               !.result = IF parsed.event.type = "result"
                                          THEN capture_result(@, parsed.event)
                                          ELSE @]

\* process_stream as a function of its stream and handler, read errors aside
RECURSIVE stream_loop(_)
stream_loop(st) ==
    IF st.status # "reading" THEN st
    ELSE IF st.pos > Len(st.lines) THEN [st EXCEPT !.status = "ok"]
    ELSE stream_loop(read_line_pass(st, st.lines[st.pos]))

process_stream(lines, handler) ==
    LET end == stream_loop(StreamStart(lines, handler))
    IN [status |-> end.status, result |-> end.result]

\* A library call made on its own: no build run is in progress
NoBuild ==
    /\ pc = "call"
    /\ now = 0
    /\ state = StateDefault(0)
    /\ saved = NoRecord
    /\ config = [max_iterations |-> 0, smart_termination |-> TRUE,
                 hooks_enabled |-> TRUE]
    /\ should_stop = FALSE
    /\ chain = <<>>
    /\ planPending = TRUE
    /\ worker = [alive |-> FALSE, spawned |-> 0, exit_code |-> 0, is_error |-> FALSE]
    /\ hook = NoHook
    /\ calls = [started |-> 0, next_iteration |-> 0, finished |-> 0]
    /\ iteration_sha = NoSha

build_vars == <<pc, state, saved, config, should_stop, now, chain,
                planPending, worker, hook, calls, iteration_sha>>

InitStream ==
    /\ NoBuild
    /\ \E lines \in Streams, handler \in Handlers :
          call = StreamStart(lines, handler)

\* lines 333-364: read_line returns a line, and the loop body runs on it
StreamReadLine ==
    /\ call.status = "reading"
    /\ call.pos <= Len(call.lines)
    /\ call' = read_line_pass(call, call.lines[call.pos])
    /\ UNCHANGED build_vars

\* lines 335-337 and 367: read_line returns 0 bytes, and the summary is returned
StreamEof ==
    /\ call.status = "reading"
    /\ call.pos > Len(call.lines)
    /\ call' = [call EXCEPT !.status = "ok"]
    /\ UNCHANGED build_vars

\* line 333: read_line fails (the pipe breaks, or the bytes are not UTF-8)
StreamReadError ==
    /\ call.status = "reading"
    /\ call' = [call EXCEPT !.status = "err"]
    /\ UNCHANGED build_vars

NextStream == StreamReadLine \/ StreamEof \/ StreamReadError

SpecStream == InitStream /\ [][NextStream]_vars

\* ---------------------------------------------------------------------------
\* Stream classifier properties

\* A line the loop hands to the handler: not blank, and it parses as an event
Parseable(id) ==
    /\ trim(Line(id)) # None
    /\ parse_event(trim(Line(id))[1]).ok

EventOf(id) == parse_event(trim(Line(id))[1]).event

\* The stream without its blank lines and its lines that do not parse
WithoutSkipped(lines) == SelectSeq(lines, Parseable)

StreamReturned == call.status \in {"ok", "panic"}

\* C14: for every finite sequence of input lines process_stream returns
\* successfully (a failing read of the pipe aside), having passed over every
\* line, and its summary is the summary of the same sequence with the blank
\* lines and the lines that do not parse removed.
C14_SkipsBlankAndMalformed ==
    (call.fn = "process_stream" /\ StreamReturned) =>
        /\ call.status = "ok"
        /\ call.pos = Len(call.lines) + 1
        /\ call.result = process_stream(WithoutSkipped(call.lines), call.handler).result

\* The lines the loop has passed over
Consumed == SubSeq(call.lines, 1, call.pos - 1)

ResultLines(lines) ==
    {i \in 1..Len(lines) : Parseable(lines[i]) /\ EventOf(lines[i]).type = "result"}

Last(S) == CHOOSE i \in S : \A j \in S : j <= i

\* The summary the last Result event of the lines gives, the default without one
SummaryOfLastResult(lines) ==
    IF ResultLines(lines) = {} THEN ProcessResultDefault
    ELSE LET e == EventOf(lines[Last(ResultLines(lines))])
         IN [exit_code |-> 0, duration_ms |-> e.duration_ms, cost_usd |-> e.cost_usd,
             num_turns |-> e.num_turns, is_error |-> (e.is_error = Some(TRUE)),
             result_text |-> e.result]

\* C15: the summary carries the duration, cost, turn count, error flag and
\* result text of the last successfully parsed Result event, and the default
\* values when there is none. It holds of the lines consumed so far at every
\* point of the loop, so no other kind of event or line changes the summary,
\* and of the whole stream when process_stream returns it.
C15_SummaryIsLastResult ==
    call.fn = "process_stream" =>
        /\ call.result = SummaryOfLastResult(Consumed)
        /\ call.status = "ok" => Consumed = call.lines

\* Two Result events, the second without any field: its absent fields replace
\* those of the first in the summary that is returned
C15_Witness ==
    /\ call.fn = "process_stream"
    /\ call.status = "ok"
    /\ call.lines = <<"result_full", "result_bare">>
    /\ call.result = ProcessResultDefault

\* A Result event followed by an event of another kind: the summary stays
C15_WitnessOtherKind ==
    /\ call.fn = "process_stream"
    /\ call.status = "ok"
    /\ call.lines = <<"result_full", "system">>
    /\ call.result.duration_ms = Some(1000)
    /\ call.result.is_error

\* The lines whose loop pass has begun: at a panic, the line at pos as well
Begun ==
    IF call.status = "panic" THEN SubSeq(call.lines, 1, call.pos) ELSE Consumed

\* A line that is a JSON object with a type tag outside the recognised seven
UnrecognisedTag(id) ==
    /\ trim(Line(id)) # None
    /\ trim(Line(id))[1].json
    /\ trim(Line(id))[1].type # None
    /\ trim(Line(id))[1].type[1] \notin RecognisedTypes

\* C16: classification is a function of the line. The events handed to the
\* handler are, in input order, exactly one per non-blank line that parses
\* among the lines read so far; two occurrences of the same line give equal
\* events; and a line whose type tag is not one of the seven recognised values
\* is handed over as Unknown, not rejected.
C16_ClassifiedInOrder ==
    call.fn = "process_stream" =>
        LET lines == WithoutSkipped(Begun)
        IN /\ Len(call.handled) = Len(lines)
           /\ \A i \in 1..Len(lines) : call.handled[i] = EventOf(lines[i])
           /\ \A i, j \in 1..Len(lines) :
                 lines[i] = lines[j] => call.handled[i] = call.handled[j]
           /\ \A i \in 1..Len(Begun) :
                 UnrecognisedTag(Begun[i]) =>
                    \E k \in 1..Len(lines) :
                       /\ lines[k] = Begun[i]
                       /\ call.handled[k] = Unknown
                       /\ Len(WithoutSkipped(SubSeq(Begun, 1, i))) = k

\* A malformed line, then a line of an unrecognised type: one event, Unknown
C16_Witness ==
    /\ call.fn = "process_stream"
    /\ call.status = "ok"
    /\ call.lines = <<"garbage", "new_type">>
    /\ call.handled = <<Unknown>>

\* The same line twice, around nothing else: two equal events in order
C16_WitnessTwice ==
    /\ call.fn = "process_stream"
    /\ call.status = "ok"
    /\ call.lines = <<"system", "system">>
    /\ Len(call.handled) = 2
    /\ call.handled[1] = call.handled[2]
    /\ call.handled[1].type = "system"

\* C17: for any input stream the outcome of process_stream (success and
\* summary) is the same for every StreamHandler configuration: when a call
\* returns or is aborted, the call on the same stream with any other
\* configuration ends the same way with the same summary.
C17_HandlerCannotChangeOutcome ==
    (call.fn = "process_stream" /\ StreamReturned) =>
        \A other \in Handlers :
            process_stream(call.lines, other) =
                [status |-> call.status, result |-> call.result]

\* ===========================================================================
\* verify.rs: has_pending_tasks
\* ===========================================================================

\* A line of a markdown document is the sequence of its characters; the two
\* completion marks are single characters
HeavyCheckMark == "U+2705"

CheckMark == "U+2713"

Whitespace == {" ", "TAB"}

Digits == {"0", "1", "2", "3", "4", "5", "6", "7", "8", "9"}

PlanLineIds == {"- [ ] t", "_- [ ] t", "-[ ]", "- [x] t", "- [] t", "* [ ] t",
                "| - [ ] |", "### 1.2 T", "### 1.1 T done", "### 1.1 T tick",
                "## 1.2 T", "### 12 T", "### 1.2", "### 1.2 _", "text",
                "- [X] t", "- [~] t", "## Cross-Cutting Tasks", "## Cross-cutting"}

PlanLine(id) ==
    CASE id = "- [ ] t" -> <<"-", " ", "[", " ", "]", " ", "t">>
      [] id = "_- [ ] t" -> <<" ", "TAB", "-", " ", " ", "[", "TAB", "]", " ", "t">>
      [] id = "-[ ]" -> <<"-", "[", " ", "]">>
      [] id = "- [x] t" -> <<"-", " ", "[", "x", "]", " ", "t">>
      [] id = "- [] t" -> <<"-", " ", "[", "]", " ", "t">>
      [] id = "* [ ] t" -> <<"*", " ", "[", " ", "]", " ", "t">>
      [] id = "| - [ ] |" -> <<"|", " ", "-", " ", "[", " ", "]", " ", "|">>
      [] id = "### 1.2 T" -> <<"#", "#", "#", " ", "1", ".", "2", " ", "T">>
      [] id = "### 1.1 T done" ->
            <<"#", "#", "#", " ", "1", ".", "1", " ", "T", " ", HeavyCheckMark>>
      [] id = "### 1.1 T tick" ->
            <<"#", "#", "#", " ", "1", ".", "1", " ", "T", " ", CheckMark>>
      [] id = "## 1.2 T" -> <<"#", "#", " ", "1", ".", "2", " ", "T">>
      [] id = "### 12 T" -> <<"#", "#", "#", " ", "1", "2", " ", "T">>
      [] id = "### 1.2" -> <<"#", "#", "#", " ", "1", ".", "2">>
      [] id = "### 1.2 _" -> <<"#", "#", "#", "TAB", "1", "0", ".", "2", " ", " ">>
      [] id = "text" -> <<"t", "e", "x", "t">>
      [] id = "- [X] t" -> <<"-", " ", "[", "X", "]", " ", "t">>
      [] id = "- [~] t" -> <<"-", " ", "[", "~", "]", " ", "t">>
      [] id = "## Cross-Cutting Tasks" ->
            <<"#", "#", " ", "C", "r", "o", "s", "s", "-", "C", "u", "t", "t", "i", "n", "g",
              " ", "T", "a", "s", "k", "s">>
      [] id = "## Cross-cutting" ->
            <<"#", "#", " ", "C", "r", "o", "s", "s", "-", "c", "u", "t", "t", "i", "n", "g">>
      [] id = "## Priority 1" ->
            <<"#", "#", " ", "P", "r", "i", "o", "r", "i", "t", "y", " ", "1">>
      [] id = "## Priority 2" ->
            <<"#", "#", " ", "P", "r", "i", "o", "r", "i", "t", "y", " ", "2">>
      [] id = "## Priority 99999999999" ->
            <<"#", "#", " ", "P", "r", "i", "o", "r", "i", "t", "y", " ", "9", "9",
              "9", "9", "9", "9", "9", "9", "9", "9", "9">>
      [] id = "### Priority 3" ->
            <<"#", "#", "#", " ", "P", "r", "i", "o", "r", "i", "t", "y", " ", "3">>
      [] id = "- [ ] A (refs: specs/auth.md)" ->
            <<"-", " ", "[", " ", "]", " ", "A", " ", "(", "r", "e", "f", "s", ":",
              " ", "s", "p", "e", "c", "s", "/", "a", "u", "t", "h", ".", "m", "d", ")">>
      [] id = "- [x] B (ref: auth, specs/big.md)" ->
            <<"-", " ", "[", "x", "]", " ", "B", " ", "(", "r", "e", "f", ":", " ",
              "a", "u", "t", "h", ",", " ", "s", "p", "e", "c", "s", "/", "b", "i",
              "g", ".", "m", "d", ")">>
      [] id = "- [~] C" ->
            <<"-", " ", "[", "~", "]", " ", "C">>
      [] id = "- [ ] D (refs: specs/README.md)" ->
            <<"-", " ", "[", " ", "]", " ", "D", " ", "(", "r", "e", "f", "s", ":",
              " ", "s", "p", "e", "c", "s", "/", "R", "E", "A", "D", "M", "E", ".",
              "m", "d", ")">>
      [] id = "- [X] E (refs: specs/big.md)" ->
            <<"-", " ", "[", "X", "]", " ", "E", " ", "(", "r", "e", "f", "s", ":",
              " ", "s", "p", "e", "c", "s", "/", "b", "i", "g", ".", "m", "d", ")">>
      [] id = "- [ ] F Dependencies: d" ->
            <<"-", " ", "[", " ", "]", " ", "F", " ", "D", "e", "p", "e", "n", "d",
              "e", "n", "c", "i", "e", "s", ":", " ", "d">>
      [] id = "  - Dependencies: a, b" ->
            <<" ", " ", "-", " ", "D", "e", "p", "e", "n", "d", "e", "n", "c", "i",
              "e", "s", ":", " ", "a", ",", " ", "b">>
      [] id = "  - Dependencies: None" ->
            <<" ", " ", "-", " ", "D", "e", "p", "e", "n", "d", "e", "n", "c", "i",
              "e", "s", ":", " ", "N", "o", "n", "e">>
      [] id = "Dependencies: c" ->
            <<"D", "e", "p", "e", "n", "d", "e", "n", "c", "i", "e", "s", ":", " ", "c">>
      [] id = "  - Complexity: high" ->
            <<" ", " ", "-", " ", "C", "o", "m", "p", "l", "e", "x", "i", "t", "y",
              ":", " ", "h", "i", "g", "h">>
      [] id = "  - Dependencies: none " ->
            <<" ", " ", "-", " ", "D", "e", "p", "e", "n", "d", "e", "n", "c", "i",
              "e", "s", ":", " ", "n", "o", "n", "e", " ">>
      [] id = "- U+23F3 None blocking" ->
            <<"-", " ", "U+23F3", " ", "N", "o", "n", "e", " ", "b", "l", "o", "c", "k", "i", "n", "g">>
      [] id = "| [auth](./auth.md) |" ->
            <<"|", " ", "[", "a", "u", "t", "h", "]", "(", ".", "/", "a", "u", "t",
              "h", ".", "m", "d", ")", " ", "|">>
      [] id = "| [big](./big.md) |" ->
            <<"|", " ", "[", "b", "i", "g", "]", "(", ".", "/", "b", "i", "g", ".",
              "m", "d", ")", " ", "|">>
      [] id = "| [README](./README.md) |" ->
            <<"|", " ", "[", "R", "E", "A", "D", "M", "E", "]", "(", ".", "/", "R",
              "E", "A", "D", "M", "E", ".", "m", "d", ")", " ", "|">>
      [] id = "  - **Complexity:** high" ->
            <<" ", " ", "-", " ", "*", "*", "C", "o", "m", "p", "l", "e", "x", "i",
              "t", "y", ":", "*", "*", " ", "h", "i", "g", "h">>
      [] id = "  - **Dependencies:** a, b" ->
            <<" ", " ", "-", " ", "*", "*", "D", "e", "p", "e", "n", "d", "e", "n",
              "c", "i", "e", "s", ":", "*", "*", " ", "a", ",", " ", "b">>
      [] id = "  - **Dependencies:** d" ->
            <<" ", " ", "-", " ", "*", "*", "D", "e", "p", "e", "n", "d", "e", "n",
              "c", "i", "e", "s", ":", "*", "*", " ", "d">>
      [] id = "  - **Dependencies:** c" ->
            <<" ", " ", "-", " ", "*", "*", "D", "e", "p", "e", "n", "d", "e", "n",
              "c", "i", "e", "s", ":", "*", "*", " ", "c">>
      [] id = "- [ ] A" ->
            <<"-", " ", "[", " ", "]", " ", "A">>
      [] id = "- [x] B" ->
            <<"-", " ", "[", "x", "]", " ", "B">>
      [] id = "- [ ] D" ->
            <<"-", " ", "[", " ", "]", " ", "D">>
      [] id = "- [x] E" ->
            <<"-", " ", "[", "x", "]", " ", "E">>

\* The character at index k, or the end of the line
At(line, k) == IF k \in 1..Len(line) THEN line[k] ELSE "END"

\* The first index from k on whose character is not in the class
RECURSIVE Skip(_, _, _)
Skip(class, line, k) ==
    IF At(line, k) \in class THEN Skip(class, line, k + 1) ELSE k

\* Regex ^\s*-\s*\[\s\]
checkbox_re(line) ==
    LET dash == Skip(Whitespace, line, 1)
        open == Skip(Whitespace, line, dash + 1)
    IN /\ At(line, dash) = "-"
       /\ At(line, open) = "["
       /\ At(line, open + 1) \in Whitespace
       /\ At(line, open + 2) = "]"

\* Regex ^###\s+\d+\.\d+\s+.+$
header_re(line) ==
    LET major == Skip(Whitespace, line, 4)
        dot == Skip(Digits, line, major)
        space == Skip(Digits, line, dot + 1)
    IN /\ \A k \in 1..3 : At(line, k) = "#"
       /\ major > 4
       /\ dot > major
       /\ At(line, dot) = "."
       /\ space > dot + 1
       /\ At(line, space) \in Whitespace
       /\ Len(line) > space

contains(line, ch) == \E k \in 1..Len(line) : line[k] = ch

\* Documents: the lines of a file's content
PlanDocs ==
    {<<>>,
     <<"- [x] t", "_- [ ] t">>,
     <<"- [x] t">>,
     <<"text", "-[ ]">>,
     <<"- [] t", "* [ ] t", "| - [ ] |">>,
     <<"### 1.1 T done", "### 1.2 T">>,
     <<"### 1.1 T done", "### 1.1 T tick", "## 1.2 T", "### 12 T", "### 1.2">>,
     <<"- [x] t", "### 1.2 _">>,
     <<"- [ ] t", "### 1.1 T done">>}

\* A path of the file system: nothing, a file with its content (fs::read_to_string
\* fails on an unreadable one) or a directory with its entries by name
Absent == [kind |-> "absent"]

File(doc) == [kind |-> "file", readable |-> TRUE, content |-> doc]

Unreadable == [kind |-> "file", readable |-> FALSE]

Dir(entries) == [kind |-> "dir", entries |-> entries]

exists(path) == path.kind # "absent"

\* fs::read_to_string(path) is Ok
read_ok(path) == path.kind = "file" /\ path.readable

\* content.lines().any(|line| re.is_match(line))
any_line(re(_), doc) == \E k \in 1..Len(doc) : re(PlanLine(doc[k]))

\* The names an entry of the impl directory has in the model
EntryNames == {"README.md", "a.md", "b.md", "notes.txt", ".archive"}

\* Path::extension(): what follows the last dot of a name that has a stem
extension(name) ==
    CASE name \in {"README.md", "a.md", "b.md", "auth.md", "big.md", "small.md"} ->
            Some("md")
      [] name = "notes.txt" -> Some("txt")
      [] OTHER -> None

unmarked_header(line) ==
    header_re(line) /\ ~contains(line, HeavyCheckMark) /\ ~contains(line, CheckMark)

\* has_pending_tasks_legacy that looks at checkboxes only
has_pending_tasks_legacy_CheckboxOnly(plan) ==
    IF ~exists(plan) THEN FALSE
    ELSE IF ~read_ok(plan) THEN FALSE
    ELSE any_line(checkbox_re, plan.content)

\* lines 230-254
has_pending_tasks_legacy(plan) ==
    IF ~exists(plan) THEN FALSE
    ELSE IF ~read_ok(plan) THEN FALSE
    ELSE IF any_line(checkbox_re, plan.content) THEN TRUE
    ELSE any_line(unmarked_header, plan.content)

\* lines 195-227: impl_dir is a directory; its entries are visited in any order
has_pending_tasks_hierarchical(impl_dir) ==
    \/ \E name \in DOMAIN impl_dir.entries :
          /\ name \notin {"README.md", ".archive"}
          /\ extension(name) = Some("md")
          /\ read_ok(impl_dir.entries[name])
          /\ any_line(checkbox_re, impl_dir.entries[name].content)
    \/ /\ read_ok(impl_dir.entries["README.md"])
       /\ any_line(checkbox_re, impl_dir.entries["README.md"].content)

\* has_pending_tasks_with_impl_dir with the plan consulted in both modes
has_pending_tasks_EitherMode(plan, impl_dir) ==
    IF exists(impl_dir) /\ exists(impl_dir.entries["README.md"])
    THEN has_pending_tasks_hierarchical(impl_dir) \/ has_pending_tasks_legacy(plan)
    ELSE has_pending_tasks_legacy(plan)

\* lines 177-192: has_pending_tasks, with impl_dir = "impl"
has_pending_tasks(plan, impl_dir) ==
    IF exists(impl_dir) /\ exists(impl_dir.entries["README.md"])
    THEN has_pending_tasks_hierarchical(impl_dir)
    ELSE has_pending_tasks_legacy(plan)

PendingDoc == <<"- [ ] t", "### 1.1 T done">>

Plans == {Absent, Unreadable} \cup {File(doc) : doc \in PlanDocs}

ImplDirs ==
    {Absent} \cup
    {Dir([name \in EntryNames |->
            CASE name = "README.md" -> readme
              [] name = "a.md" -> a
              [] name = "b.md" -> b
              [] name = "notes.txt" -> notes
              [] name = ".archive" -> archive]) :
        readme \in Plans,
        a \in {Absent} \cup {File(doc) : doc \in PlanDocs},
        b \in {Absent, Unreadable, File(PendingDoc)},
        notes \in {Absent, File(PendingDoc)},
        archive \in {Absent, Dir([name \in {"old.md"} |-> File(PendingDoc)])}}

InitPending ==
    /\ NoBuild
    /\ \E plan \in Plans, impl_dir \in ImplDirs :
          call = [fn |-> "has_pending_tasks", status |-> "called",
                  plan |-> plan, impl_dir |-> impl_dir]

\* has_pending_tasks(plan_path) in the project directory
HasPendingTasks ==
    /\ call.status = "called"
    /\ call' = [fn |-> call.fn, status |-> "returned", plan |-> call.plan,
                impl_dir |-> call.impl_dir,
                result |-> has_pending_tasks(call.plan, call.impl_dir)]
    /\ UNCHANGED build_vars

NextPending == HasPendingTasks

SpecPending == InitPending /\ [][NextPending]_vars

\* ---------------------------------------------------------------------------
\* has_pending_tasks properties

\* The sample lines that are pending checkboxes, and those that are numbered
\* section headers without a completion mark
PendingCheckboxLines == {"- [ ] t", "_- [ ] t", "-[ ]"}

UnmarkedHeaderLines == {"### 1.2 T", "### 1.2 _"}

\* The readable document at a path has a line of the given kind
HasLine(path, kind) ==
    /\ read_ok(path)
    /\ \E k \in 1..Len(path.content) : path.content[k] \in kind

IndexExists ==
    exists(call.impl_dir) /\ exists(call.impl_dir.entries["README.md"])

\* A feature document or the index document has a pending checkbox: the
\* markdown files of the hierarchical root itself, the archive not among them
HierarchicalPending ==
    \E name \in {"README.md", "a.md", "b.md"} :
        HasLine(call.impl_dir.entries[name], PendingCheckboxLines)

PendingReturned == call.fn = "has_pending_tasks" /\ call.status = "returned"

\* C18 as stated: has_pending_tasks is true if and only if, in legacy mode,
\* the plan document contains a pending-checkbox line, or, in hierarchical
\* mode, a feature document or the index document outside the archive does.
C18_PendingIffCheckbox ==
    PendingReturned =>
        (call.result <=>
            IF IndexExists THEN HierarchicalPending
            ELSE HasLine(call.plan, PendingCheckboxLines))

\* C18, amended: in legacy mode has_pending_tasks is true if and only if the
\* readable plan document contains a pending-checkbox line or a numbered
\* section header without a completion mark; in hierarchical mode, if and only
\* if a readable feature document or the index document of the hierarchical
\* root, outside the archive, contains a pending-checkbox line.
C18_PendingIff ==
    PendingReturned =>
        (call.result <=>
            IF IndexExists THEN HierarchicalPending
            ELSE \/ HasLine(call.plan, PendingCheckboxLines)
                 \/ HasLine(call.plan, UnmarkedHeaderLines))

\* Legacy mode, a plan with section headers only, one of them unmarked
C18_Witness ==
    /\ PendingReturned
    /\ call.impl_dir = Absent
    /\ call.plan = File(<<"### 1.1 T done", "### 1.2 T">>)
    /\ call.result

\* Hierarchical mode: the only pending checkboxes are in the archive and in a
\* file that is not markdown, and the result is false
C18_WitnessArchive ==
    /\ PendingReturned
    /\ IndexExists
    /\ call.impl_dir.entries[".archive"] # Absent
    /\ call.impl_dir.entries["notes.txt"] # Absent
    /\ call.impl_dir.entries["a.md"] = File(<<"- [x] t">>)
    /\ ~call.result

\* C19: when the index document impl/README.md exists, the result is decided
\* from the hierarchical documents only: it is the same for every legacy plan
\* (absent, unreadable, or of any content), and it is true only for a pending
\* checkbox in a feature or index document, never for a section header. When
\* the index is absent, the result is that of the legacy plan: its pending
\* checkboxes, then its unmarked numbered headers.
C19_IndexDecidesMode ==
    PendingReturned =>
        IF IndexExists
        THEN /\ \A plan \in Plans :
                   has_pending_tasks(plan, call.impl_dir) = call.result
             /\ call.result => HierarchicalPending
        ELSE call.result =
                (\/ HasLine(call.plan, PendingCheckboxLines)
                 \/ HasLine(call.plan, UnmarkedHeaderLines))

\* The index exists and has an unmarked header, the feature document is done,
\* and the legacy plan has a pending checkbox: no pending tasks
C19_Witness ==
    /\ PendingReturned
    /\ IndexExists
    /\ call.plan = File(PendingDoc)
    /\ call.impl_dir.entries["README.md"] = File(<<"### 1.1 T done", "### 1.2 T">>)
    /\ call.impl_dir.entries["a.md"] = File(<<"- [x] t">>)
    /\ call.impl_dir.entries["b.md"] = Absent
    /\ ~call.result

\* ===========================================================================
\* impl_plan.rs: the hierarchical plan index
\* ===========================================================================

\* The bound on the checkboxes of one kind in a feature document
MaxTasks == 2

\* The feature documents of the model, listed in the order of str::cmp
FeatureNames == <<"auth", "big", "small">>

name_rank(name) == CHOOSE k \in 1..Len(FeatureNames) : FeatureNames[k] = name

\* lines 191-219: the FeatureStatus parse_feature_file derives from the counts
\* of pending, completed and in-progress checkboxes of a document
FeatureStatus(name, pending, completed, in_progress) ==
    LET total == pending + completed + in_progress
    IN [name |-> name,
        status |-> IF completed = total /\ total > 0 THEN "Complete"
                   ELSE IF completed > 0 \/ in_progress > 0 THEN "InProgress"
                   ELSE "Pending",
        total_tasks |-> total,
        completed_tasks |-> completed,
        pending_tasks |-> pending + in_progress]

\* features.sort_by(|a, b| a.name.cmp(&b.name)) on the statuses that were read
RECURSIVE sort_by_name(_)
sort_by_name(statuses) ==
    IF statuses = {} THEN <<>>
    ELSE LET first == CHOOSE f \in statuses :
                         \A g \in statuses : name_rank(f.name) <= name_rank(g.name)
         IN <<first>> \o sort_by_name(statuses \ {first})

\* Iterator::find: the first element that satisfies the predicate
find(features, P(_)) ==
    LET hits == {k \in 1..Len(features) : P(features[k])}
    IN IF hits = {} THEN None
       ELSE Some(features[CHOOSE k \in hits : \A j \in hits : k <= j])

\* Iterator::min_by_key: of several minimal elements, the first
min_by_key(features, P(_), key(_)) ==
    LET hits == {k \in 1..Len(features) : P(features[k])}
    IN IF hits = {} THEN None
       ELSE Some(features[CHOOSE k \in hits : \A j \in hits :
                    \/ key(features[k]) < key(features[j])
                    \/ key(features[k]) = key(features[j]) /\ k <= j])

is_in_progress(f) == f.status = "InProgress"

has_pending(f) == f.pending_tasks > 0

pending_tasks(f) == f.pending_tasks

\* select_next_focus that takes the feature with the fewest pending tasks first
select_next_focus_QuickWinFirst(features) ==
    LET quick == min_by_key(features, has_pending, pending_tasks)
    IN IF quick # None THEN quick ELSE find(features, is_in_progress)

\* lines 142-162
select_next_focus(features) ==
    LET in_progress == find(features, is_in_progress)
    IN IF in_progress # None THEN in_progress
       ELSE min_by_key(features, has_pending, pending_tasks)

\* What parse_feature_file can give for one feature document
Parsed(name) ==
    {FeatureStatus(name, pending, completed, in_progress) :
        pending \in 0..MaxTasks, completed \in 0..MaxTasks, in_progress \in {0, 1}}

\* The feature documents of an impl directory: each absent, or parsed
FeatureDocs ==
    {docs \in [1..Len(FeatureNames) ->
                 {None} \cup {Some(st) : st \in UNION {Parsed(FeatureNames[k]) :
                                                    k \in 1..Len(FeatureNames)}}] :
        \A k \in 1..Len(FeatureNames) :
            docs[k] = None \/ docs[k][1].name = FeatureNames[k]}

\* lines 81-103: ImplIndex::load pushes the statuses in the order read_dir
\* gives and sorts them by name
load_features(docs) ==
    sort_by_name({docs[k][1] : k \in {j \in 1..Len(docs) : docs[j] # None}})

InitFocus ==
    /\ NoBuild
    /\ \E docs \in FeatureDocs :
          call = [fn |-> "select_next_focus", status |-> "loaded",
                  features |-> load_features(docs)]

\* index.select_next_focus() on the loaded index
SelectNextFocus ==
    /\ call.status = "loaded"
    /\ call' = [fn |-> call.fn, status |-> "returned", features |-> call.features,
                result |-> select_next_focus(call.features)]
    /\ UNCHANGED build_vars

NextFocus == SelectNextFocus

SpecFocus == InitFocus /\ [][NextFocus]_vars

\* ---------------------------------------------------------------------------
\* select_next_focus properties

Features == {call.features[k] : k \in 1..Len(call.features)}

Before(f, g) == name_rank(f.name) <= name_rank(g.name)

\* C20: select_next_focus returns the first feature in name order whose
\* status is InProgress if there is one, whatever the pending counts;
\* otherwise the feature with the fewest pending tasks among those with
\* pending tasks, the first in name order on ties. It returns none exactly
\* when no feature has pending work, and never a feature without pending tasks.
C20_SelectNextFocus ==
    (call.fn = "select_next_focus" /\ call.status = "returned") =>
        LET working == {f \in Features : f.status = "InProgress"}
            open == {f \in Features : f.pending_tasks > 0}
        IN /\ working # {} =>
                 /\ call.result # None
                 /\ call.result[1] \in working
                 /\ \A g \in working : Before(call.result[1], g)
           /\ (working = {} /\ open # {}) =>
                 /\ call.result # None
                 /\ call.result[1] \in open
                 /\ \A g \in open :
                       \/ call.result[1].pending_tasks < g.pending_tasks
                       \/ /\ call.result[1].pending_tasks = g.pending_tasks
                          /\ Before(call.result[1], g)
           /\ call.result = None <=> open = {}
           /\ call.result # None => call.result[1].pending_tasks > 0

\* The in-progress feature is chosen although an earlier one has fewer
\* pending tasks
C20_Witness ==
    /\ call.fn = "select_next_focus"
    /\ call.status = "returned"
    /\ call.features = <<FeatureStatus("auth", 1, 0, 0), FeatureStatus("big", 2, 1, 0)>>
    /\ call.result = Some(FeatureStatus("big", 2, 1, 0))

\* No feature in progress, two with the fewest pending tasks: the first by name
C20_WitnessTie ==
    /\ call.fn = "select_next_focus"
    /\ call.status = "returned"
    /\ call.features = <<FeatureStatus("auth", 2, 0, 0), FeatureStatus("big", 1, 0, 0),
                         FeatureStatus("small", 1, 0, 0)>>
    /\ call.result = Some(FeatureStatus("big", 1, 0, 0))

\* ===========================================================================
\* impl_plan.rs: feature documents, the index and the archive
\* ===========================================================================

\* Regex ^\s*-\s*\[m\] for a mark m of the given class
checkbox_marked(line, marks) ==
    LET dash == Skip(Whitespace, line, 1)
        open == Skip(Whitespace, line, dash + 1)
    IN /\ At(line, dash) = "-"
       /\ At(line, open) = "["
       /\ At(line, open + 1) \in marks
       /\ At(line, open + 2) = "]"

\* Regex ^\s*-\s*\[[xX]\]
checkbox_complete(line) == checkbox_marked(line, {"x", "X"})

\* Regex ^\s*-\s*\[~\]
checkbox_in_progress(line) == checkbox_marked(line, {"~"})

\* The number of lines of a document that satisfy the predicate
count_lines(doc, P(_)) == Cardinality({k \in 1..Len(doc) : P(PlanLine(doc[k]))})

is_pending_line(line) == checkbox_re(line)

is_complete_line(line) == ~checkbox_re(line) /\ checkbox_complete(line)

is_in_progress_line(line) ==
    ~checkbox_re(line) /\ ~checkbox_complete(line) /\ checkbox_in_progress(line)

\* Path::file_stem: the file name without its extension
file_stem(name) ==
    CASE name = "auth.md" -> "auth"
      [] name = "big.md" -> "big"
      [] name = "small.md" -> "small"
      [] OTHER -> "unknown"

\* parse_feature_file with completed checkboxes left out of the total
parse_feature_file_PendingOnly(name, path) ==
    IF ~read_ok(path) THEN None
    ELSE Some([FeatureStatus(file_stem(name),
                             count_lines(path.content, is_pending_line),
                             count_lines(path.content, is_complete_line),
                             count_lines(path.content, is_in_progress_line))
               EXCEPT !.total_tasks = @ - count_lines(path.content, is_complete_line)])

\* lines 166-219: None when the file cannot be read
parse_feature_file(name, path) ==
    IF ~read_ok(path) THEN None
    ELSE Some(FeatureStatus(file_stem(name),
                            count_lines(path.content, is_pending_line),
                            count_lines(path.content, is_complete_line),
                            count_lines(path.content, is_in_progress_line)))

\* content.contains("## Cross-Cutting")
CrossCuttingHeading ==
    <<"#", "#", " ", "C", "r", "o", "s", "s", "-", "C", "u", "t", "t", "i", "n", "g">>

contains_str(line, pat) ==
    \E k \in 1..(Len(line) - Len(pat) + 1) : SubSeq(line, k, k + Len(pat) - 1) = pat

cross_cutting_pending(line) == ~contains(line, "|") /\ checkbox_re(line)

cross_cutting_completed(line) ==
    ~contains(line, "|") /\ ~checkbox_re(line) /\ checkbox_complete(line)

\* lines 240-273
count_cross_cutting_tasks(doc) ==
    IF ~\E k \in 1..Len(doc) : contains_str(PlanLine(doc[k]), CrossCuttingHeading)
    THEN [total |-> 0, completed |-> 0, pending |-> 0]
    ELSE [total |-> count_lines(doc, cross_cutting_pending)
                       + count_lines(doc, cross_cutting_completed),
          completed |-> count_lines(doc, cross_cutting_completed),
          pending |-> count_lines(doc, cross_cutting_pending)]

\* filename.ends_with(".md")
ends_with_md(name) == name \in {"README.md", "auth.md", "big.md", "small.md"}

LoadError == [ok |-> FALSE]

\* lines 75-118: ImplIndex::load (current_focus, which nothing modelled here
\* reads, is left out of the record)
load(impl_dir) ==
    IF ~exists(impl_dir) \/ ~exists(impl_dir.entries["README.md"]) THEN LoadError
    ELSE LET eligible == {name \in DOMAIN impl_dir.entries :
                            /\ exists(impl_dir.entries[name])
                            /\ name \notin {"README.md", ".archive"}
                            /\ ends_with_md(name)
                            /\ parse_feature_file(name, impl_dir.entries[name]) # None}
             features == sort_by_name(
                 {parse_feature_file(name, impl_dir.entries[name])[1] : name \in eligible})
             readme == impl_dir.entries["README.md"]
         IN IF ~read_ok(readme) THEN LoadError
            ELSE [ok |-> TRUE, features |-> features,
                  cross_cutting_tasks |-> count_cross_cutting_tasks(readme.content)]

\* The sum of a field over the features
RECURSIVE SumFeatures(_, _)
SumFeatures(features, field) ==
    IF features = <<>> THEN 0
    ELSE Head(features)[field] + SumFeatures(Tail(features), field)

\* lines 121-139: ImplIndex::total_tasks, completed_tasks, pending_tasks, is_complete
index_total_tasks(index) ==
    SumFeatures(index.features, "total_tasks") + index.cross_cutting_tasks.total

index_completed_tasks(index) ==
    SumFeatures(index.features, "completed_tasks") + index.cross_cutting_tasks.completed

\* pending_tasks that forgets the cross-cutting tasks of the index document
index_pending_tasks_FeaturesOnly(index) == SumFeatures(index.features, "pending_tasks")

index_pending_tasks(index) ==
    SumFeatures(index.features, "pending_tasks") + index.cross_cutting_tasks.pending

is_complete(index) == index_pending_tasks(index) = 0

\* format!("{}.md", feature_name)
feature_file(feature_name) ==
    CASE feature_name = "auth" -> "auth.md"
      [] feature_name = "big" -> "big.md"
      [] feature_name = "small" -> "small.md"

FeatureFiles == {feature_file(FeatureNames[k]) : k \in 1..Len(FeatureNames)}

EmptyArchive == Dir([name \in FeatureFiles |-> Absent])

\* archive_feature that removes the document before it is in the archive
archive_feature_RemoveFirst(impl_dir, feature_name, dir_ok, rename_ok) ==
    LET file == feature_file(feature_name)
        archive == impl_dir.entries[".archive"]
    IN IF ~exists(impl_dir.entries[file]) THEN [ok |-> FALSE, impl_dir |-> impl_dir]
       ELSE IF archive.kind = "file" \/ ~dir_ok
       THEN [ok |-> FALSE, impl_dir |-> impl_dir]
       ELSE LET made == IF exists(archive) THEN archive ELSE EmptyArchive
            IN IF ~rename_ok
               THEN [ok |-> FALSE,
                     impl_dir |-> Dir([impl_dir.entries EXCEPT ![".archive"] = made,
                                                                ![file] = Absent])]
               ELSE [ok |-> TRUE,
                     impl_dir |-> Dir([impl_dir.entries EXCEPT
                         ![".archive"] = Dir([made.entries EXCEPT
                                                 ![file] = impl_dir.entries[file]]),
                         ![file] = Absent])]

\* lines 276-292: archive_feature, whose create_dir_all and rename can fail
archive_feature(impl_dir, feature_name, dir_ok, rename_ok) ==
    LET file == feature_file(feature_name)
        archive == impl_dir.entries[".archive"]
    IN IF ~exists(impl_dir.entries[file]) THEN [ok |-> FALSE, impl_dir |-> impl_dir]
       ELSE IF archive.kind = "file" \/ ~dir_ok
       THEN [ok |-> FALSE, impl_dir |-> impl_dir]
       ELSE LET made == IF exists(archive) THEN archive ELSE EmptyArchive
            IN IF ~rename_ok
               THEN [ok |-> FALSE,
                     impl_dir |-> Dir([impl_dir.entries EXCEPT ![".archive"] = made])]
               ELSE [ok |-> TRUE,
                     impl_dir |-> Dir([impl_dir.entries EXCEPT
                         ![".archive"] = Dir([made.entries EXCEPT
                                                 ![file] = impl_dir.entries[file]]),
                         ![file] = Absent])]

\* Feature and index documents of the model
FeatureDocuments ==
    {<<"- [ ] t">>,
     <<"- [x] t", "- [X] t">>,
     <<"- [x] t", "_- [ ] t", "text">>,
     <<"- [~] t">>,
     <<"text", "- [] t">>,
     <<"- [~] t", "- [x] t", "- [ ] t", "- [ ] t">>}

IndexDocuments ==
    {<<"text">>,
     <<"## Cross-Cutting Tasks", "- [ ] t", "| - [ ] |", "- [x] t", "- [~] t">>,
     <<"## Cross-cutting", "- [ ] t">>}

ImplRoots ==
    {Dir([name \in FeatureFiles \cup {"README.md", "notes.txt", ".archive"} |->
            CASE name = "README.md" -> readme
              [] name = "auth.md" -> auth
              [] name = "big.md" -> big
              [] name = "small.md" -> small
              [] name = "notes.txt" -> File(PendingDoc)
              [] name = ".archive" -> archive]) :
        readme \in {Absent, Unreadable} \cup {File(doc) : doc \in IndexDocuments},
        auth \in {Absent, Unreadable} \cup {File(doc) : doc \in FeatureDocuments},
        big \in {Absent, File(<<"- [~] t">>), File(<<"- [x] t", "_- [ ] t", "text">>)},
        small \in {Absent, File(<<"- [ ] t">>), File(<<"- [x] t", "- [X] t">>)},
        archive \in {Absent, Unreadable,
                     Dir([name \in FeatureFiles |->
                            IF name = "auth.md" THEN File(PendingDoc) ELSE Absent])}}

NoCallYet == [op |-> "none"]

InitIndex ==
    /\ NoBuild
    /\ \E impl_dir \in ImplRoots :
          call = [fn |-> "impl_plan", impl_dir |-> impl_dir, last |-> NoCallYet]

\* archive_feature(impl_dir, feature_name)
ArchiveFeature ==
    /\ \E feature_name \in {FeatureNames[k] : k \in 1..Len(FeatureNames)},
          dir_ok \in BOOLEAN, rename_ok \in BOOLEAN :
          LET done == archive_feature(call.impl_dir, feature_name, dir_ok, rename_ok)
          IN call' = [call EXCEPT
                        !.impl_dir = done.impl_dir,
                        !.last = [op |-> "archive_feature", feature_name |-> feature_name,
                                  ok |-> done.ok]]
    /\ UNCHANGED build_vars

\* ImplIndex::load(impl_dir)
LoadIndex ==
    /\ call' = [call EXCEPT !.last = [op |-> "load", index |-> load(call.impl_dir)]]
    /\ UNCHANGED build_vars

\* has_pending_tasks(plan_path) in the project that holds impl_dir and a legacy plan
CheckPending ==
    /\ call' = [call EXCEPT !.last =
                   [op |-> "has_pending_tasks",
                    result |-> has_pending_tasks(File(PendingDoc), call.impl_dir)]]
    /\ UNCHANGED build_vars

NextIndex == ArchiveFeature \/ LoadIndex \/ CheckPending

SpecIndex == InitIndex /\ [][NextIndex]_vars

\* ---------------------------------------------------------------------------
\* Claims about the index and the archive, under SpecIndex
\* ---------------------------------------------------------------------------

\* The lines of the feature documents, by the kind of checkbox they hold
PendingCheckboxIds == {"- [ ] t", "_- [ ] t"}

CompleteCheckboxIds == {"- [x] t", "- [X] t"}

InProgressCheckboxIds == {"- [~] t"}

\* The number of lines of a document that are among the given lines
CountIds(doc, ids) == Cardinality({k \in 1..Len(doc) : doc[k] \in ids})

\* The last call was a load that returned an index
Loaded == call.fn = "impl_plan" /\ call.last.op = "load" /\ call.last.index.ok

\* The document a loaded feature was derived from
DocumentOf(f) == call.impl_dir.entries[feature_file(f.name)].content

\* C21: for every FeatureStatus derived from a feature document, completed_tasks
\* + pending_tasks = total_tasks with in-progress checkboxes counted as pending;
\* status is Complete iff total_tasks > 0 and completed_tasks = total_tasks;
\* otherwise it is InProgress exactly when some checkbox is complete or
\* in-progress, and Pending when none is.
C21_FeatureStatusCounts ==
    Loaded =>
        \A k \in 1..Len(call.last.index.features) :
            LET f == call.last.index.features[k]
                doc == DocumentOf(f)
                started == CountIds(doc, CompleteCheckboxIds \cup InProgressCheckboxIds) > 0
            IN /\ f.completed_tasks + f.pending_tasks = f.total_tasks
               /\ f.completed_tasks = CountIds(doc, CompleteCheckboxIds)
               /\ f.pending_tasks =
                     CountIds(doc, PendingCheckboxIds \cup InProgressCheckboxIds)
               /\ f.status = "Complete" <=>
                     (f.total_tasks > 0 /\ f.completed_tasks = f.total_tasks)
               /\ f.status # "Complete" =>
                     /\ f.status = "InProgress" <=> started
                     /\ f.status = "Pending" <=> ~started

\* A loaded feature whose only checkbox is in progress: InProgress, one pending
C21_Witness ==
    /\ Loaded
    /\ \E k \in 1..Len(call.last.index.features) :
          LET f == call.last.index.features[k]
          IN /\ DocumentOf(f) = <<"- [~] t">>
             /\ f.status = "InProgress"
             /\ f.pending_tasks = 1
             /\ f.completed_tasks = 0

\* Loaded features of each of the three statuses, one with no checkbox at all
C21_WitnessAllStatuses ==
    /\ Loaded
    /\ \E i, j, k \in 1..Len(call.last.index.features) :
          /\ call.last.index.features[i].status = "Complete"
          /\ call.last.index.features[j].status = "InProgress"
          /\ call.last.index.features[j].completed_tasks > 0
          /\ call.last.index.features[k].status = "Pending"
    /\ \E k \in 1..Len(call.last.index.features) :
          call.last.index.features[k].total_tasks = 0

\* The value of a field of the k-th feature, 0 past the end of the list
FieldAt(features, k, field) == IF k \in 1..Len(features) THEN features[k][field] ELSE 0

\* The sum of a field over the features of an index, which has at most one
\* feature per name of FeatureNames
FeatureSum(features, field) ==
    FieldAt(features, 1, field) + FieldAt(features, 2, field) + FieldAt(features, 3, field)

\* C22: for every loaded ImplIndex, total_tasks() is the sum of the features'
\* total_tasks plus cross_cutting.total, and completed_tasks() + pending_tasks()
\* = total_tasks().
C22_IndexTotals ==
    Loaded =>
        LET index == call.last.index
        IN /\ Len(index.features) <= 3
           /\ index_total_tasks(index) =
                 FeatureSum(index.features, "total_tasks") + index.cross_cutting_tasks.total
           /\ index_completed_tasks(index) + index_pending_tasks(index) =
                 index_total_tasks(index)

\* An index of at least two features with tasks and with cross-cutting tasks,
\* some completed and some pending
C22_Witness ==
    /\ Loaded
    /\ Len(call.last.index.features) >= 2
    /\ \A k \in 1..Len(call.last.index.features) :
          call.last.index.features[k].total_tasks > 0
    /\ call.last.index.cross_cutting_tasks.pending > 0
    /\ call.last.index.cross_cutting_tasks.completed > 0
    /\ index_completed_tasks(call.last.index) > 1
    /\ index_pending_tasks(call.last.index) > 1

\* What the archive location of a directory holds under a file name
Archived(impl_dir, file) ==
    IF impl_dir.entries[".archive"].kind = "dir"
    THEN impl_dir.entries[".archive"].entries[file]
    ELSE Absent

\* C23: archive_feature fails without changing anything when the named feature
\* document does not exist; when it succeeds the document is at the archive
\* location and no longer at its original location; whenever it fails the
\* original location holds what it held; so a document that was in one place
\* only is never left absent from both places or present in both.
C23_ArchiveMovesOrLeaves ==
    [][call'.last.op = "archive_feature" =>
          LET file == feature_file(call'.last.feature_name)
              before == call.impl_dir
              after == call'.impl_dir
          IN /\ ~exists(before.entries[file]) =>
                   ~call'.last.ok /\ after = before
             /\ call'.last.ok =>
                   /\ exists(before.entries[file])
                   /\ Archived(after, file) = before.entries[file]
                   /\ ~exists(after.entries[file])
             /\ ~call'.last.ok =>
                   /\ after.entries[file] = before.entries[file]
                   /\ Archived(after, file) = Archived(before, file)
             /\ (exists(before.entries[file]) /\ ~exists(Archived(before, file))) =>
                   exists(after.entries[file]) # exists(Archived(after, file))
             /\ \A other \in FeatureFiles \ {file} :
                   /\ after.entries[other] = before.entries[other]
                   /\ Archived(after, other) = Archived(before, other)]_vars

\* A successful archive: the document is in the archive and not in the root
C23_Witness ==
    /\ call.fn = "impl_plan"
    /\ call.last.op = "archive_feature"
    /\ call.last.ok
    /\ call.last.feature_name = "small"
    /\ ~exists(call.impl_dir.entries["small.md"])
    /\ Archived(call.impl_dir, "small.md") = File(<<"- [x] t", "- [X] t">>)

\* A failed archive of a document that exists: the rename failed after the
\* archive location was created, and the document is still in the root only
C23_WitnessFailure ==
    /\ call.fn = "impl_plan"
    /\ call.last.op = "archive_feature"
    /\ ~call.last.ok
    /\ call.last.feature_name = "big"
    /\ exists(call.impl_dir.entries["big.md"])
    /\ call.impl_dir.entries[".archive"] = EmptyArchive

\* The directory with its archive location emptied
WithoutArchive(impl_dir) == Dir([impl_dir.entries EXCEPT ![".archive"] = Absent])

\* The names of the features an index lists
Listed(index) == {index.features[k].name : k \in 1..Len(index.features)}

\* The markdown feature documents in the root of the directory
RootDocuments(impl_dir) ==
    {name \in FeatureFiles : exists(impl_dir.entries[name])}

\* Archived documents contribute nothing to a loaded index or to
\* has_pending_tasks, and no FeatureStatus of a loaded index is Archived
ArchiveIgnored ==
    /\ Loaded =>
          /\ call.last.index = load(WithoutArchive(call.impl_dir))
          /\ \A k \in 1..Len(call.last.index.features) :
                call.last.index.features[k].status
                    \in {"Pending", "InProgress", "Complete"}
    /\ (call.fn = "impl_plan" /\ call.last.op = "has_pending_tasks") =>
          call.last.result =
              has_pending_tasks(File(PendingDoc), WithoutArchive(call.impl_dir))

\* C30: after any sequence of archive operations, load lists exactly the
\* markdown feature documents still in the root directory (never the index
\* document or anything in the archive location), archived documents contribute
\* nothing to the index totals or to has_pending_tasks, and no FeatureStatus
\* returned by load has status Archived.
C30_LoadListsRootDocuments ==
    /\ Loaded =>
          /\ Len(call.last.index.features) = Cardinality(RootDocuments(call.impl_dir))
          /\ Listed(call.last.index) =
                {file_stem(name) : name \in RootDocuments(call.impl_dir)}
    /\ ArchiveIgnored

\* What holds instead: load lists exactly the root documents it could read
C30_LoadListsReadableRootDocuments ==
    /\ Loaded =>
          /\ Len(call.last.index.features) =
                Cardinality({name \in RootDocuments(call.impl_dir) :
                                read_ok(call.impl_dir.entries[name])})
          /\ Listed(call.last.index) =
                {file_stem(name) : name \in
                    {n \in RootDocuments(call.impl_dir) : read_ok(call.impl_dir.entries[n])}}
    /\ ArchiveIgnored

\* ===========================================================================
\* verify.rs: parse_plan
\* ===========================================================================

\* The first index from `from` on at which pat occurs in s, 0 when nowhere
find_str(s, pat, from) ==
    LET hits == {k \in from..(Len(s) - Len(pat) + 1) :
                    s[k] = pat[1] /\ SubSeq(s, k, k + Len(pat) - 1) = pat}
    IN IF hits = {} THEN 0 ELSE CHOOSE k \in hits : \A j \in hits : k <= j

\* pat occurs in s at index k
starts_with_at(s, pat, k) ==
    /\ k + Len(pat) - 1 <= Len(s)
    /\ s[k] = pat[1]
    /\ SubSeq(s, k, k + Len(pat) - 1) = pat

\* str::trim
str_trim(s) ==
    LET kept == {k \in 1..Len(s) : s[k] \notin Whitespace}
    IN IF kept = {} THEN <<>>
       ELSE SubSeq(s, CHOOSE k \in kept : \A j \in kept : k <= j,
                      CHOOSE k \in kept : \A j \in kept : j <= k)

\* s.split(',').map(|s| s.trim())
RECURSIVE split_trim(_)
split_trim(s) ==
    LET comma == find_str(s, <<",">>, 1)
    IN IF comma = 0 THEN <<str_trim(s)>>
       ELSE <<str_trim(SubSeq(s, 1, comma - 1))>>
               \o split_trim(SubSeq(s, comma + 1, Len(s)))

UpperCase == <<"A", "B", "C", "D", "E", "F", "G", "H", "I", "J", "K", "L", "M",
               "N", "O", "P", "Q", "R", "S", "T", "U", "V", "W", "X", "Y", "Z">>

LowerCase == <<"a", "b", "c", "d", "e", "f", "g", "h", "i", "j", "k", "l", "m",
               "n", "o", "p", "q", "r", "s", "t", "u", "v", "w", "x", "y", "z">>

\* str::to_lowercase
to_lowercase(s) ==
    [k \in 1..Len(s) |->
        IF \E i \in 1..Len(UpperCase) : UpperCase[i] = s[k]
        THEN LowerCase[CHOOSE i \in 1..Len(UpperCase) : UpperCase[i] = s[k]]
        ELSE s[k]]

\* Regex ^##\s+Priority\s+(\d+): the digits captured, if the line matches
priority_re(line) ==
    LET word == Skip(Whitespace, line, 3)
        digits == Skip(Whitespace, line, word + 8)
        end == Skip(Digits, line, digits)
    IN IF /\ At(line, 1) = "#"
          /\ At(line, 2) = "#"
          /\ word > 3
          /\ word + 7 <= Len(line)
          /\ SubSeq(line, word, word + 7) = <<"P", "r", "i", "o", "r", "i", "t", "y">>
          /\ digits > word + 8
          /\ end > digits
       THEN Some(SubSeq(line, digits, end - 1))
       ELSE None

\* u32::MAX in decimal
U32Max == <<"4", "2", "9", "4", "9", "6", "7", "2", "9", "5">>

DigitSeq == <<"0", "1", "2", "3", "4", "5", "6", "7", "8", "9">>

\* str::parse::<u32>().ok() on a string of digits: the number, written without
\* leading zeros, when it is at most u32::MAX, and None when it is larger
parse_u32(ds) ==
    LET nonzero == Skip({"0"}, ds, 1)
        sig == IF nonzero > Len(ds) THEN <<"0">> ELSE SubSeq(ds, nonzero, Len(ds))
        rank(c) == CHOOSE i \in 1..Len(DigitSeq) : DigitSeq[i] = c
        greater == \E k \in 1..Len(sig) :
                      /\ rank(sig[k]) > rank(U32Max[k])
                      /\ \A j \in 1..(k - 1) : sig[j] = U32Max[j]
    IN IF Len(sig) < Len(U32Max) \/ (Len(sig) = Len(U32Max) /\ ~greater)
       THEN Some(sig)
       ELSE None

\* Regex ^(\s*)-\s*\[([ xX~])\]\s+(.+)$: the mark and the description captured
task_re(line) ==
    LET dash == Skip(Whitespace, line, 1)
        open == Skip(Whitespace, line, dash + 1)
        gap == open + 3
        text == Skip(Whitespace, line, gap)
    IN IF /\ At(line, dash) = "-"
          /\ At(line, open) = "["
          /\ At(line, open + 1) \in {" ", "x", "X", "~"}
          /\ At(line, open + 2) = "]"
          /\ At(line, gap) \in Whitespace
          /\ Len(line) > gap
       THEN Some([mark |-> line[open + 1],
                  description |->
                      SubSeq(line, IF text <= Len(line) THEN text ELSE Len(line),
                             Len(line))])
       ELSE None

\* Regex \(refs?:\s*([^)]+)\) matched at index k of s: its extent and its group
refs_re_at(s, k) ==
    LET colon == IF At(s, k + 4) = "s" THEN k + 5 ELSE k + 4
        first == Skip(Whitespace, s, colon + 1)
        close == find_str(s, <<")">>, first)
    IN IF \/ ~starts_with_at(s, <<"(", "r", "e", "f">>, k)
          \/ At(s, colon) # ":"
          \/ close = 0
       THEN None
       ELSE IF close > first
       THEN Some([from |-> k, to |-> close, group |-> SubSeq(s, first, close - 1)])
       ELSE IF first > colon + 1
       THEN Some([from |-> k, to |-> close, group |-> SubSeq(s, first - 1, first - 1)])
       ELSE None

\* refs_re.captures(s): the leftmost match
refs_re(s) ==
    LET hits == {k \in 1..Len(s) : refs_re_at(s, k) # None}
    IN IF hits = {} THEN None
       ELSE refs_re_at(s, CHOOSE k \in hits : \A j \in hits : k <= j)

\* refs_re.replace_all(s, ""): s without the match m and the matches after it
RECURSIVE remove_refs(_)
without_match(s, m) ==
    IF m = None THEN s
    ELSE SubSeq(s, 1, m[1].from - 1) \o remove_refs(SubSeq(s, m[1].to + 1, Len(s)))

remove_refs(s) == without_match(s, refs_re(s))

\* Regex Dependencies:\s*(.+), anywhere in the line: the text captured
deps_re(line) ==
    LET at == find_str(line, <<"D", "e", "p", "e", "n", "d", "e", "n", "c", "i", "e", "s", ":">>, 1)
        colon == at + Len(<<"D", "e", "p", "e", "n", "d", "e", "n", "c", "i", "e", "s", ":">>) - 1
        first == Skip(Whitespace, line, colon + 1)
    IN IF at = 0 \/ colon = Len(line) THEN None
       ELSE Some(SubSeq(line, IF first <= Len(line) THEN first ELSE Len(line),
                        Len(line)))

\* Regex Complexity:\s*(low|medium|high), anywhere in the line: the level
complexity_re(line) ==
    LET word == <<"C", "o", "m", "p", "l", "e", "x", "i", "t", "y", ":">>
        levels == {<<"l", "o", "w">>,
                   <<"m", "e", "d", "i", "u", "m">>,
                   <<"h", "i", "g", "h">>}
        level_at(k) == Skip(Whitespace, line, k + Len(word))
        hits == {m \in (1..Len(line)) \X levels :
                    /\ starts_with_at(line, word, m[1])
                    /\ starts_with_at(line, m[2], level_at(m[1]))}
    IN IF hits = {} THEN None
       ELSE Some((CHOOSE m \in hits : \A n \in hits : m[1] <= n[1])[2])

TaskStatus(mark) ==
    CASE mark = " " -> "Pending"
      [] mark \in {"x", "X"} -> "Completed"
      [] mark = "~" -> "InProgress"
      [] OTHER -> "Pending"

\* lines 98-131: the task a checkbox line opens, given the captures of the
\* line and those of refs_re in its description
open_task(tasks, current_priority, caps, refs, line_number) ==
    IF caps = None THEN tasks
    ELSE Append(tasks,
                [description |-> str_trim(remove_refs(caps[1].description)),
                 status |-> TaskStatus(caps[1].mark),
                 spec_refs |-> IF refs = None THEN <<>> ELSE split_trim(refs[1].group),
                 line_number |-> line_number,
                 priority |-> current_priority,
                 dependencies |-> <<>>,
                 complexity |-> None])

\* lines 142-153: Complexity on the last task
annotate_complexity(tasks, level) ==
    IF tasks # <<>> /\ level # None
    THEN [tasks EXCEPT ![Len(tasks)].complexity = level]
    ELSE tasks

\* lines 139-153: Dependencies, then Complexity, on the last task
annotate(tasks, deps, level) ==
    LET nonempty(d) == d # <<>>
    IN annotate_complexity(
          IF tasks # <<>> /\ deps # None /\ to_lowercase(deps[1]) # <<"n", "o", "n", "e">>
          THEN [tasks EXCEPT ![Len(tasks)].dependencies =
                                SelectSeq(split_trim(deps[1]), nonempty)]
          ELSE tasks,
          level)

\* refs_re.captures(&description) of the captures of a checkbox line
description_refs(caps) == IF caps = None THEN None ELSE refs_re(caps[1].description)

\* lines 91-155: the body of the loop over the lines of the plan, on the tasks
\* opened so far and the current priority
parse_plan_line(st, line, line_number) ==
    IF priority_re(line) # None
    THEN [st EXCEPT !.current_priority = parse_u32(priority_re(line)[1])]
    ELSE [st EXCEPT !.tasks =
             annotate(open_task(st.tasks, st.current_priority, task_re(line),
                                description_refs(task_re(line)), line_number),
                      deps_re(line), complexity_re(line))]

RECURSIVE parse_plan_lines(_, _, _)
parse_plan_lines(doc, k, st) ==
    IF k > Len(doc) THEN st.tasks
    ELSE parse_plan_lines(doc, k + 1, parse_plan_line(st, PlanLine(doc[k]), k))

\* lines 76-158: parse_plan, which fails when the plan cannot be read
parse_plan(plan) ==
    IF ~read_ok(plan) THEN [ok |-> FALSE]
    ELSE [ok |-> TRUE,
          tasks |-> parse_plan_lines(plan.content, 1,
                                     [tasks |-> <<>>, current_priority |-> None])]

\* The bound on the lines of a plan
MaxPlanLines == 3

\* The lines of the plans that are parsed
ParseLineIds ==
    {"## Priority 1", "## Priority 2", "## Priority 99999999999", "### Priority 3",
     "- [ ] A (refs: specs/auth.md)", "- [x] B (ref: auth, specs/big.md)", "- [~] C",
     "- [ ] F Dependencies: d", "  - Dependencies: a, b", "  - Dependencies: None",
     "Dependencies: c", "  - Complexity: high", "  - Dependencies: none ", "text"}

ParsePlans ==
    {Unreadable} \cup
    {File(doc) : doc \in UNION {[1..n -> ParseLineIds] : n \in 0..MaxPlanLines}}

InitParse ==
    /\ NoBuild
    /\ \E plan \in ParsePlans :
          call = [fn |-> "parse_plan", status |-> "called", plan |-> plan]

\* parse_plan(plan_path)
ParsePlan ==
    /\ call.status = "called"
    /\ call' = [fn |-> call.fn, status |-> "returned", plan |-> call.plan,
                result |-> parse_plan(call.plan)]
    /\ UNCHANGED build_vars

NextParse == ParsePlan

SpecParse == InitParse /\ [][NextParse]_vars

\* ===========================================================================
\* impl_plan.rs: migration of a legacy plan
\* ===========================================================================

\* The characters of the names in byte order
ByteOrder ==
    <<"-", ".", "/">> \o DigitSeq \o UpperCase \o LowerCase

\* String's Ord: byte-wise lexicographic order
str_less(a, b) ==
    LET rank(c) == CHOOSE i \in 1..Len(ByteOrder) : ByteOrder[i] = c
        differ == {k \in 1..Len(a) : k > Len(b) \/ a[k] # b[k]}
        first == CHOOSE k \in differ : \A j \in differ : k <= j
    IN IF differ = {} THEN Len(a) < Len(b)
       ELSE first <= Len(b) /\ rank(a[first]) < rank(b[first])

\* The elements of a sequence at the indices kept, in order
RECURSIVE select_at(_, _)
select_at(seq, keep) ==
    IF seq = <<>> THEN <<>>
    ELSE select_at(SubSeq(seq, 1, Len(seq) - 1), keep)
            \o (IF Len(seq) \in keep THEN <<seq[Len(seq)]>> ELSE <<>>)

\* str::trim_start_matches(pat)
RECURSIVE trim_start_matches(_, _)
trim_start_matches(s, pat) ==
    IF pat # <<>> /\ starts_with_at(s, pat, 1)
    THEN trim_start_matches(SubSeq(s, Len(pat) + 1, Len(s)), pat)
    ELSE s

\* str::trim_end_matches(pat)
RECURSIVE trim_end_matches(_, _)
trim_end_matches(s, pat) ==
    IF Len(s) >= Len(pat) /\ SubSeq(s, Len(s) - Len(pat) + 1, Len(s)) = pat
    THEN trim_end_matches(SubSeq(s, 1, Len(s) - Len(pat)), pat)
    ELSE s

\* lines 403-409
extract_spec_name(spec_ref) ==
    LET trimmed == trim_end_matches(trim_start_matches(spec_ref, <<"s", "p", "e", "c", "s", "/">>), <<".", "m", "d">>)
    IN [k \in 1..Len(trimmed) |-> IF trimmed[k] = "/" THEN "-" ELSE trimmed[k]]

\* lines 366-400: the tasks grouped by the normalized name of their first spec
\* reference, and the tasks without a reference
analyze_migration(tasks) ==
    LET referenced == {k \in 1..Len(tasks) : tasks[k].spec_refs # <<>>}
        spec_name(k) == extract_spec_name(tasks[k].spec_refs[1])
    IN [total_tasks |-> Len(tasks),
        tasks_by_spec |->
            [name \in {spec_name(k) : k \in referenced} |->
                select_at(tasks, {k \in referenced : spec_name(k) = name})],
        orphan_tasks |-> select_at(tasks, (1..Len(tasks)) \ referenced)]

\* The lines a generated document can hold
GeneratedLineIds ==
    {"- U+23F3 None blocking", "- [ ] A", "- [x] B", "- [~] C", "- [ ] D", "- [x] E",
     "- [ ] F Dependencies: d", "  - **Complexity:** high",
     "  - **Dependencies:** a, b", "  - **Dependencies:** d",
     "  - **Dependencies:** c", "| [auth](./auth.md) |", "| [big](./big.md) |",
     "| [README](./README.md) |", "## Cross-Cutting Tasks"}

\* The line of the documents that has these characters
line_of(chars) == CHOOSE id \in GeneratedLineIds : PlanLine(id) = chars

\* str::join(", ")
RECURSIVE join(_)
join(parts) ==
    IF Len(parts) = 1 THEN parts[1]
    ELSE parts[1] \o <<",", " ">> \o join(Tail(parts))

\* format!("- {} {}\n", checkbox, task.description)
checkbox_line(task) ==
    LET checkbox == CASE task.status = "Pending" -> <<"[", " ", "]">>
                      [] task.status = "Completed" -> <<"[", "x", "]">>
                      [] task.status = "InProgress" -> <<"[", "~", "]">>
    IN line_of(<<"-", " ">> \o checkbox \o <<" ">> \o task.description)

\* lines 518-549: the lines written for one task of a feature document
task_lines(task) ==
    <<checkbox_line(task)>>
        \o (IF task.complexity # None
            THEN <<line_of(<<" ", " ", "-", " ", "*", "*", "C", "o", "m", "p", "l", "e", "x", "i", "t", "y", ":",
  "*", "*", " ">> \o task.complexity[1])>>
            ELSE <<>>)
        \o (IF task.dependencies # <<>>
            THEN <<line_of(<<" ", " ", "-", " ", "*", "*", "D", "e", "p", "e", "n", "d", "e", "n", "c", "i", "e",
  "s", ":", "*", "*", " ">> \o join(task.dependencies))>>
            ELSE <<>>)

\* Option<u32>'s order in lines 508-515: numbers ascending, None last
priority_before(a, b) ==
    /\ a # None
    /\ \/ b = None
       \/ Len(a[1]) < Len(b[1])
       \/ Len(a[1]) = Len(b[1]) /\ str_less(a[1], b[1])

RECURSIVE tasks_by_priority(_, _)
tasks_by_priority(tasks, priorities) ==
    IF priorities = {} THEN <<>>
    ELSE LET first == CHOOSE p \in priorities :
                         \A q \in priorities \ {p} : priority_before(p, q)
             group == select_at(tasks, {k \in 1..Len(tasks) : tasks[k].priority = first})
         IN group \o tasks_by_priority(tasks, priorities \ {first})

RECURSIVE lines_of_tasks(_)
lines_of_tasks(tasks) ==
    IF tasks = <<>> THEN <<>>
    ELSE task_lines(Head(tasks)) \o lines_of_tasks(Tail(tasks))

\* lines 467-561: of the template, the lines that begin a list item; headings
\* and paragraphs, which no reader of the documents matches, are left out
generate_feature_file(tasks) ==
    <<"- U+23F3 None blocking">>
        \o lines_of_tasks(
              tasks_by_priority(tasks, {tasks[k].priority : k \in 1..Len(tasks)}))

\* The names in the order of Vec::sort
RECURSIVE sorted_names(_)
sorted_names(names) ==
    IF names = {} THEN <<>>
    ELSE LET first == CHOOSE n \in names : \A m \in names \ {n} : str_less(n, m)
         IN <<first>> \o sorted_names(names \ {first})

RECURSIVE orphan_lines(_)
orphan_lines(tasks) ==
    IF tasks = <<>> THEN <<>>
    ELSE <<checkbox_line(Head(tasks))>> \o orphan_lines(Tail(tasks))

\* lines 564-670: of the template, the rows of the status table (each cut after
\* its first cell), the cross-cutting heading and the orphan tasks
generate_readme(tasks_by_spec, orphan_tasks) ==
    LET features == sorted_names(DOMAIN tasks_by_spec)
        row(name) == line_of(<<"|", " ", "[">> \o name \o <<"]", "(", ".", "/">>
                             \o name \o <<".", "m", "d", ")", " ", "|">>)
    IN [k \in 1..Len(features) |-> row(features[k])]
          \o (IF orphan_tasks # <<>>
              THEN <<"## Cross-Cutting Tasks">> \o orphan_lines(orphan_tasks)
              ELSE <<>>)

\* impl_dir.join(format!("{}.md", spec_name)): the entry of the directory
feature_path(spec_name) ==
    CASE spec_name = <<"a", "u", "t", "h">> -> "auth.md"
      [] spec_name = <<"b", "i", "g">> -> "big.md"
      [] spec_name = <<"R", "E", "A", "D", "M", "E">> -> "README.md"

\* The entries of a directory that create_dir_all has just made
NewDir == Dir([name \in FeatureFiles \cup {"README.md", "notes.txt", ".archive"} |-> Absent])

\* lines 425-430: the feature documents written in the order of the map's
\* iteration, up to the write that fails
RECURSIVE write_features(_, _, _, _, _)
write_features(impl_dir, tasks_by_spec, order, k, fail_at) ==
    IF k > Len(order) \/ fail_at = k THEN impl_dir
    ELSE write_features(
            Dir([impl_dir.entries EXCEPT ![feature_path(order[k])] =
                    File(generate_feature_file(tasks_by_spec[order[k]]))]),
            tasks_by_spec, order, k + 1, fail_at)

\* lines 412-453: migrate_plan on the legacy plan, its backup path and the impl
\* directory. order is the iteration order of the map of features; fail_at
\* numbers the file-system operation that fails: 1 and 2 the two create_dir_all,
\* then the writes of the feature documents, of the index, and the rename
migrate_plan(fs, order, fail_at) ==
    LET parsed == parse_plan(fs.legacy)
        analysis == analyze_migration(parsed.tasks)
        n == Len(order)
        root == IF exists(fs.impl_dir) THEN fs.impl_dir ELSE NewDir
        with_archive ==
            IF exists(root.entries[".archive"]) THEN root
            ELSE Dir([root.entries EXCEPT ![".archive"] = EmptyArchive])
        with_features ==
            write_features(with_archive, analysis.tasks_by_spec, order, 1, fail_at - 2)
        with_readme ==
            Dir([with_features.entries EXCEPT !["README.md"] =
                    File(generate_readme(analysis.tasks_by_spec, analysis.orphan_tasks))])
        failed(dir) == [ok |-> FALSE, fs |-> [fs EXCEPT !.impl_dir = dir]]
    IN IF ~parsed.ok THEN [ok |-> FALSE, fs |-> fs]
       ELSE IF fail_at = 1 THEN [ok |-> FALSE, fs |-> fs]
       ELSE IF fail_at = 2 \/ root.entries[".archive"].kind = "file" THEN failed(root)
       ELSE IF fail_at \in 3..(n + 2) THEN failed(with_features)
       ELSE IF fail_at = n + 3 THEN failed(with_features)
       ELSE IF fail_at = n + 4 THEN failed(with_readme)
       ELSE [ok |-> TRUE,
             fs |-> [legacy |-> Absent, backup |-> fs.legacy, impl_dir |-> with_readme],
             feature_count |-> n,
             task_count |-> analysis.total_tasks,
             orphan_count |-> Len(analysis.orphan_tasks)]

\* The lines of the legacy plans that are migrated
MigrateLineIds ==
    {"## Priority 1", "- [ ] A (refs: specs/auth.md)", "- [x] B (ref: auth, specs/big.md)",
     "- [~] C", "- [ ] D (refs: specs/README.md)", "- [X] E (refs: specs/big.md)"}

LegacyPlans ==
    {Absent} \cup
    {File(doc) : doc \in UNION {[1..n -> MigrateLineIds] : n \in 0..MaxPlanLines}}

\* The orders in which a set of names can be iterated
Orders(names) ==
    {order \in [1..Cardinality(names) -> names] :
        \A i, j \in 1..Cardinality(names) : i # j => order[i] # order[j]}

InitMigrate ==
    /\ NoBuild
    /\ \E legacy \in LegacyPlans,
          impl_dir \in {Absent, Dir([NewDir.entries EXCEPT ![".archive"] = Unreadable])} :
          call = [fn |-> "migrate", status |-> "called", last |-> NoCallYet,
                  fs |-> [legacy |-> legacy, backup |-> Absent, impl_dir |-> impl_dir]]

\* migrate_plan(legacy_path, impl_dir, threshold)
MigratePlan ==
    /\ call.status = "called"
    /\ LET parsed == parse_plan(call.fs.legacy)
           names == IF parsed.ok THEN DOMAIN analyze_migration(parsed.tasks).tasks_by_spec
                    ELSE {}
       IN \E order \in Orders(names), fail_at \in 0..(Cardinality(names) + 4) :
             LET done == migrate_plan(call.fs, order, fail_at)
             IN call' = [call EXCEPT
                           !.status = "returned",
                           !.fs = done.fs,
                           !.last = [op |-> "migrate_plan", before |-> call.fs,
                                     result |-> [done EXCEPT !.fs = TRUE]]]
    /\ UNCHANGED build_vars

\* commands/build.rs lines 26-33 and 95: the plan prerequisite of a build run
\* and, past it, the first decision on pending work
build_plan_check(fs) ==
    IF ~exists(fs.legacy) THEN [aborted |-> TRUE, pending |-> None]
    ELSE [aborted |-> FALSE, pending |-> Some(has_pending_tasks(fs.legacy, fs.impl_dir))]

\* `fresher build` run in the project once `fresher migrate-plan` has reported
\* success (commands/migrate.rs line 137 names it as the next step)
BuildAfterMigration ==
    /\ call.status = "returned"
    /\ call.last.result.ok
    /\ call' = [fn |-> "migrate", status |-> "built", fs |-> call.fs, last |-> call.last,
                build |-> build_plan_check(call.fs)]
    /\ UNCHANGED build_vars

\* ImplIndex::load on the directory a successful migration generated
LoadAfterMigration ==
    /\ call.status = "returned"
    /\ call.last.result.ok
    /\ call' = [fn |-> "migrate", status |-> "loaded", fs |-> call.fs, last |-> call.last,
                index |-> load(call.fs.impl_dir)]
    /\ UNCHANGED build_vars

NextMigrate == MigratePlan \/ BuildAfterMigration \/ LoadAfterMigration

SpecMigrate == InitMigrate /\ [][NextMigrate]_vars

\* ---------------------------------------------------------------------------
\* Claims about the migration, under SpecMigrate
\* ---------------------------------------------------------------------------

\* migrate_plan has returned
Migrated == call.fn = "migrate" /\ call.status = "returned"

\* The feature document a line of the legacy plan belongs to: the normalized
\* name of the first spec reference of a task line, "none" for any other line
FeatureOfLine(id) ==
    CASE id \in {"- [ ] A (refs: specs/auth.md)", "- [x] B (ref: auth, specs/big.md)"} ->
            "auth.md"
      [] id = "- [X] E (refs: specs/big.md)" -> "big.md"
      [] id = "- [ ] D (refs: specs/README.md)" -> "README.md"
      [] OTHER -> "none"

\* The feature documents a legacy plan calls for
FeaturesOf(doc) == {FeatureOfLine(doc[k]) : k \in 1..Len(doc)} \ {"none"}

\* The documents of the hierarchical plan that exist in a directory
Documents(impl_dir) ==
    IF ~exists(impl_dir) THEN {}
    ELSE {name \in FeatureFiles \cup {"README.md"} : exists(impl_dir.entries[name])}

\* C24: migrate_plan is all-or-nothing: in every outcome either all feature
\* documents and the index document are written and the legacy plan is renamed
\* to its backup name, or no generated document exists and the legacy plan is
\* still in place.
C24_MigrationAllOrNothing ==
    Migrated =>
        LET before == call.last.before
        IN \/ /\ call.last.result.ok
              /\ Documents(call.fs.impl_dir) = FeaturesOf(before.legacy.content) \cup {"README.md"}
              /\ ~exists(call.fs.legacy)
              /\ call.fs.backup = before.legacy
           \/ /\ ~call.last.result.ok
              /\ Documents(call.fs.impl_dir) = {}
              /\ call.fs.legacy = before.legacy
              /\ call.fs.backup = before.backup

\* A failure after the index document was written: every generated document
\* is there and the legacy plan is still in place
C24_PartialMigration ==
    /\ Migrated
    /\ ~call.last.result.ok
    /\ exists(call.fs.legacy)
    /\ {"auth.md", "README.md"} \subseteq Documents(call.fs.impl_dir)

\* The checkbox line a task line of the legacy plan is written as, "none" for
\* a line that is not a task
WrittenAs(id) ==
    CASE id = "- [ ] A (refs: specs/auth.md)" -> "- [ ] A"
      [] id = "- [x] B (ref: auth, specs/big.md)" -> "- [x] B"
      [] id = "- [~] C" -> "- [~] C"
      [] id = "- [ ] D (refs: specs/README.md)" -> "- [ ] D"
      [] id = "- [X] E (refs: specs/big.md)" -> "- [x] E"
      [] OTHER -> "none"

\* The document a task line of the legacy plan belongs in: its feature
\* document, or the index document for a task without a spec reference
HomeOf(id) ==
    IF WrittenAs(id) = "none" THEN "none"
    ELSE IF FeatureOfLine(id) = "none" THEN "README.md"
    ELSE FeatureOfLine(id)

\* The lines of a document of the directory, none when it does not exist
ContentOf(impl_dir, name) ==
    IF exists(impl_dir) /\ read_ok(impl_dir.entries[name])
    THEN impl_dir.entries[name].content
    ELSE <<>>

\* Every task of the legacy plan is written once, in the document it belongs
\* in, and nowhere else; orphans follow the cross-cutting heading
TasksAccountedFor(legacy, impl_dir) ==
    /\ \A name \in FeatureFiles \cup {"README.md"} :
          \A written \in {WrittenAs(legacy[k]) : k \in 1..Len(legacy)} \ {"none"} :
              CountIds(ContentOf(impl_dir, name), {written}) =
                  Cardinality({k \in 1..Len(legacy) :
                                  WrittenAs(legacy[k]) = written /\ HomeOf(legacy[k]) = name})
    /\ \A k \in 1..Len(ContentOf(impl_dir, "README.md")) :
          ContentOf(impl_dir, "README.md")[k] = "- [~] C" =>
              \E j \in 1..(k - 1) :
                  ContentOf(impl_dir, "README.md")[j] = "## Cross-Cutting Tasks"

\* C25: a successful migration writes exactly one feature document per distinct
\* normalized name of the tasks' first spec reference, every task with a spec
\* reference appears in exactly one feature document, every task without one
\* appears in the index document's cross-cutting section, and the legacy
\* document is renamed to the backup suffix; feature documents plus orphans
\* account for every parsed task exactly once.
C25_MigrationAccountsForTasks ==
    (Migrated /\ call.last.result.ok) =>
        LET legacy == call.last.before.legacy
        IN /\ Documents(call.fs.impl_dir) = FeaturesOf(legacy.content) \cup {"README.md"}
           /\ call.last.result.feature_count = Cardinality(FeaturesOf(legacy.content))
           /\ call.last.result.task_count =
                 Cardinality({k \in 1..Len(legacy.content) :
                                 WrittenAs(legacy.content[k]) # "none"})
           /\ TasksAccountedFor(legacy.content, call.fs.impl_dir)
           /\ ~exists(call.fs.legacy)
           /\ call.fs.backup = legacy

\* What holds instead: the same, for plans in which no task refers to a spec
\* whose normalized name is README
C25_AccountsForTasksUnlessIndexName ==
    (Migrated /\ call.last.result.ok
        /\ "README.md" \notin FeaturesOf(call.last.before.legacy.content)) =>
            C25_MigrationAccountsForTasks

\* A successful migration of two tasks of one feature, named by different
\* references, and an orphan
C25_TwoTasksOneFeature ==
    /\ Migrated
    /\ call.last.result.ok
    /\ call.last.before.legacy.content =
          <<"- [ ] A (refs: specs/auth.md)", "- [x] B (ref: auth, specs/big.md)", "- [~] C">>
    /\ ContentOf(call.fs.impl_dir, "auth.md") =
          <<"- U+23F3 None blocking", "- [ ] A", "- [x] B">>
    /\ ContentOf(call.fs.impl_dir, "README.md") =
          <<"| [auth](./auth.md) |", "## Cross-Cutting Tasks", "- [~] C">>

\* ===========================================================================
\* state.rs: the State record in .fresher/.state
\* ===========================================================================

\* i64::MAX in decimal, the largest integer of a TOML document
I64Max == <<"9", "2", "2", "3", "3", "7", "2", "0", "3", "6", "8", "5", "4", "7", "7", "5", "8",
  "0", "7">>

\* A numeral without leading zeros denotes a number that is at most max
numeral_fits(sig, max) ==
    LET rank(c) == CHOOSE i \in 1..Len(DigitSeq) : DigitSeq[i] = c
        greater == \E k \in 1..Len(sig) :
                      /\ rank(sig[k]) > rank(max[k])
                      /\ \A j \in 1..(k - 1) : sig[j] = max[j]
    IN Len(sig) < Len(max) \/ (Len(sig) = Len(max) /\ ~greater)

\* serde(rename_all = "snake_case") on FinishType
FinishTypeNames ==
    [Manual |-> "manual", Error |-> "error", MaxIterations |-> "max_iterations",
     Complete |-> "complete", NoChanges |-> "no_changes"]

\* A key = value line of the document
KeyValue(key, type, text) == <<[key |-> key, type |-> type, text |-> text]>>

\* A field of type Option: no line at all for None
OptionalKeyValue(key, type, option, text(_)) ==
    IF option = None THEN <<>> ELSE KeyValue(key, type, text(option[1]))

\* toml::to_string_pretty(&State): the lines of the document, an integer as its
\* decimal numeral, a DateTime<Utc> as the string of its instant, a FinishType as
\* the string of its snake-case name. TOML integers are 64-bit signed: a checked
\* serializer refuses a u64 above i64::MAX, an unchecked one writes its numeral
to_string_pretty(s, checked) ==
    LET quoted(chars) == <<"QUOTE">> \o chars \o <<"QUOTE">>
        instant(t) == quoted(NatToStr(t))
        variant(v) == FinishTypeNames[v]
    IN IF checked /\ ~numeral_fits(s.duration, I64Max) THEN [ok |-> FALSE]
       ELSE [ok |-> TRUE,
             text |->
                KeyValue("iteration", "integer", NatToStr(s.iteration))
                \o KeyValue("last_exit_code", "integer", IntToStr(s.last_exit_code))
                \o OptionalKeyValue("last_commit_sha", "string", s.last_commit_sha, quoted)
                \o KeyValue("started_at", "string", instant(s.started_at))
                \o KeyValue("total_commits", "integer", NatToStr(s.total_commits))
                \o KeyValue("duration", "integer", s.duration)
                \o OptionalKeyValue("finish_type", "string", s.finish_type, variant)
                \o OptionalKeyValue("iteration_start", "string", s.iteration_start, instant)
                \o OptionalKeyValue("iteration_sha", "string", s.iteration_sha, quoted)]

\* The value of a key of the document, None when the key is missing
value_of(text, key) ==
    LET at == {k \in 1..Len(text) : text[k].key = key}
    IN IF at = {} THEN None ELSE Some(text[CHOOSE k \in at : TRUE])

\* The TOML parser on an integer: its value, or None when it is out of range
toml_integer(text) ==
    LET negative == At(text, 1) = "-"
        digits == IF negative THEN Tail(text) ELSE text
    IN IF ~numeral_fits(digits, I64Max) THEN None ELSE Some(text)

\* toml::from_str::<State>: fails on a document with an integer that is out of
\* range or with a required field missing; an absent optional field is None
from_str(text) ==
    LET unquoted(chars) == SubSeq(chars, 2, Len(chars) - 1)
        instant(chars) == ParseDecimal(unquoted(chars))
        number(chars) == IF chars[1] = "-" THEN 0 - ParseDecimal(Tail(chars))
                         ELSE ParseDecimal(chars)
        variant(name) == CHOOSE v \in DOMAIN FinishTypeNames : FinishTypeNames[v] = name
        field(key) == value_of(text, key)[1].text
        optional(key, value(_)) ==
            IF value_of(text, key) = None THEN None ELSE Some(value(field(key)))
        required == {"iteration", "last_exit_code", "started_at", "total_commits", "duration"}
        integers == {k \in 1..Len(text) : text[k].type = "integer"}
    IN IF \/ \E key \in required : value_of(text, key) = None
          \/ \E k \in integers : toml_integer(text[k].text) = None
       THEN [ok |-> FALSE]
       ELSE [ok |-> TRUE,
             state |-> [iteration |-> number(field("iteration")),
                        last_exit_code |-> number(field("last_exit_code")),
                        last_commit_sha |-> optional("last_commit_sha", unquoted),
                        started_at |-> instant(field("started_at")),
                        total_commits |-> number(field("total_commits")),
                        duration |-> field("duration"),
                        finish_type |-> optional("finish_type", variant),
                        iteration_start |-> optional("iteration_start", instant),
                        iteration_sha |-> optional("iteration_sha", unquoted)]]

\* lines 78-83: State::save, on the file .fresher/.state
state_save(file, s, checked) ==
    IF to_string_pretty(s, checked).ok
    THEN [ok |-> TRUE, file |-> Some(to_string_pretty(s, checked).text)]
    ELSE [ok |-> FALSE, file |-> file]

\* lines 66-75: State::load
state_load(file) ==
    IF file = None THEN [ok |-> TRUE, state |-> None]
    ELSE IF from_str(file[1]).ok THEN [ok |-> TRUE, state |-> Some(from_str(file[1]).state)]
    ELSE [ok |-> FALSE]

\* u64 numerals: (now - started_at).num_seconds() as u64 is the elapsed seconds,
\* or 2^64 minus the seconds the wall clock was set back since the start
Durations ==
    {<<"0">>, <<"7">>, I64Max,
     <<"9", "2", "2", "3", "3", "7", "2", "0", "3", "6", "8", "5", "4", "7", "7", "5", "8",
  "0", "8">>,
     <<"1", "8", "4", "4", "6", "7", "4", "4", "0", "7", "3", "7", "0", "9", "5", "5", "1",
  "6", "1", "5">>}

Shas == {None, Some(<<"a", "b", "c", "1">>)}

States ==
    [iteration : {0, 12},
     last_exit_code : {-1, 0, 1},
     last_commit_sha : Shas,
     started_at : {3},
     total_commits : {0, 4},
     duration : Durations,
     finish_type : {None} \cup {Some(v) : v \in DOMAIN FinishTypeNames},
     iteration_start : {None, Some(5)},
     iteration_sha : Shas]

InitState ==
    /\ NoBuild
    /\ \E s \in States :
          call = [fn |-> "state", state |-> s, file |-> None, last |-> NoCallYet]

\* state.save()
SaveState ==
    /\ call.last.op = "none"
    /\ \E checked \in BOOLEAN :
          LET done == state_save(call.file, call.state, checked)
          IN call' = [call EXCEPT !.file = done.file,
                                  !.last = [op |-> "save", ok |-> done.ok]]
    /\ UNCHANGED build_vars

\* State::load()
LoadState ==
    /\ call.last.op # "load"
    /\ call' = [call EXCEPT !.last = [op |-> "load", result |-> state_load(call.file)]]
    /\ UNCHANGED build_vars

NextState == SaveState \/ LoadState

SpecState == InitState /\ [][NextState]_vars

\* ---------------------------------------------------------------------------
\* Claims about the State record, under SpecState
\* ---------------------------------------------------------------------------

\* The record was saved and then loaded
SavedAndLoaded ==
    call.fn = "state" /\ call.last.op = "load" /\ call.file # None

\* C26: serializing a State record and deserializing the result yields a record
\* equal to the original in every field, including unset optional fields and
\* every finish type.
C26_StateRoundTrip ==
    /\ (call.fn = "state" /\ call.last.op = "save") => call.last.ok
    /\ SavedAndLoaded => call.last.result = [ok |-> TRUE, state |-> Some(call.state)]

\* What holds instead: the round trip of every record whose duration is at most
\* i64::MAX
C26_RoundTripWithinI64 ==
    numeral_fits(call.state.duration, I64Max) => C26_StateRoundTrip

\* A record with every optional field unset, saved and loaded back equal
C26_UnsetFieldsRoundTrip ==
    /\ SavedAndLoaded
    /\ call.state.last_commit_sha = None
    /\ call.state.finish_type = None
    /\ call.state.iteration_start = None
    /\ call.state.iteration_sha = None
    /\ call.state.last_exit_code = -1
    /\ call.last.result = [ok |-> TRUE, state |-> Some(call.state)]

\* ---------------------------------------------------------------------------
\* The finished hook's TOTAL_ITERATIONS, under Spec
\* ---------------------------------------------------------------------------

\* The finished hook script has been run
FinishedHookRan == hook.name = "finished" /\ hook.executed

\* C27: the TOTAL_ITERATIONS value passed to the finished hook equals the
\* number of iterations completed in the run, the iterations whose worker was
\* run to exit. (The finished hook runs only after every spawned worker has
\* exited, so that number is worker.spawned.)
C27_TotalIterationsCompleted ==
    FinishedHookRan => hook.env["FRESHER_TOTAL_ITERATIONS"] = worker.spawned

\* What holds instead: TOTAL_ITERATIONS is the number of iterations started,
\* one for every run of the next_iteration hook, skipped and aborted ones too
C27_TotalIterationsStarted ==
    FinishedHookRan =>
        /\ hook.env["FRESHER_TOTAL_ITERATIONS"] = state.iteration
        /\ hook.env["FRESHER_TOTAL_ITERATIONS"] = calls.next_iteration
        /\ hook.env["FRESHER_TOTAL_ITERATIONS"] >= worker.spawned

\* The finished hook told of one iteration in a run that started no worker
C27_CountedWithoutWorker ==
    /\ FinishedHookRan
    /\ hook.env["FRESHER_TOTAL_ITERATIONS"] = 1
    /\ worker.spawned = 0

\* ---------------------------------------------------------------------------
\* Claims about parse_plan, under SpecParse
\* ---------------------------------------------------------------------------

\* parse_plan has returned the tasks of the plan
PlanParsed == call.fn = "parse_plan" /\ call.status = "returned" /\ call.result.ok

\* The number of a `## Priority <N>` header line, <<>> for any other line
HeaderNumber(id) ==
    CASE id = "## Priority 1" -> <<"1">>
      [] id = "## Priority 2" -> <<"2">>
      [] id = "## Priority 99999999999" -> <<"9", "9", "9", "9", "9", "9", "9", "9", "9", "9", "9">>
      [] OTHER -> <<>>

\* The header lines before line k of a document
HeadersBefore(doc, k) == {j \in 1..(k - 1) : HeaderNumber(doc[j]) # <<>>}

\* The priority of a task on line k is the number of the nearest header before
\* it, and none when there is no header before it
PriorityFromNearestHeader(doc, task) ==
    LET headers == HeadersBefore(doc, task.line_number)
        nearest == CHOOSE j \in headers : \A i \in headers : i <= j
    IN task.priority = IF headers = {} THEN None ELSE Some(HeaderNumber(doc[nearest]))

\* C28: each parsed task's priority is the number of the nearest preceding
\* `## Priority <N>` header in the document and is none for tasks before the
\* first such header; a header affects only the tasks that follow it, up to the
\* next header.
C28_PriorityOfNearestHeader ==
    PlanParsed =>
        \A k \in 1..Len(call.result.tasks) :
            PriorityFromNearestHeader(call.plan.content, call.result.tasks[k])

\* What holds instead: the same, in plans whose header numbers fit a u32
C28_PriorityOfNearestHeaderU32 ==
    (PlanParsed /\ \A j \in 1..Len(call.plan.content) :
                    call.plan.content[j] # "## Priority 99999999999") =>
        C28_PriorityOfNearestHeader

\* A task before the first header and a task under the second of two headers
C28_TwoHeaders ==
    /\ PlanParsed
    /\ call.plan.content = <<"## Priority 1", "## Priority 2", "- [~] C">>
    /\ call.result.tasks[1].priority = Some(<<"2">>)

\* The indented annotation lines
IndentedAnnotations ==
    {"  - Dependencies: a, b", "  - Dependencies: None", "  - Dependencies: none ",
     "  - Complexity: high"}

\* The lines that carry the text of an annotation anywhere
AnnotationTexts == IndentedAnnotations \cup {"Dependencies: c", "- [ ] F Dependencies: d"}

\* The dependencies an indented `Dependencies:` annotation names, <<>> for
\* `Dependencies: none` in any letter case and for every other line
NamedDependencies(id) ==
    IF id = "  - Dependencies: a, b" THEN <<<<"a">>, <<"b">>>> ELSE <<>>

\* The last of the indented annotation lines that immediately follow line k
AnnotationsEnd(doc, k) ==
    CHOOSE m \in k..Len(doc) :
        /\ \A j \in (k + 1)..m : doc[j] \in IndentedAnnotations
        /\ m < Len(doc) => doc[m + 1] \notin IndentedAnnotations

\* The last element of a set of line numbers
LastOf(lines) == CHOOSE j \in lines : \A i \in lines : i <= j

\* A task's dependencies and complexity are those of the indented annotation
\* lines that immediately follow it
AnnotatedByFollowingLines(doc, task) ==
    LET run == (task.line_number + 1)..AnnotationsEnd(doc, task.line_number)
        naming == {j \in run : NamedDependencies(doc[j]) # <<>>}
        levels == {j \in run : doc[j] = "  - Complexity: high"}
    IN /\ task.dependencies =
              IF naming = {} THEN <<>> ELSE NamedDependencies(doc[LastOf(naming)])
       /\ task.complexity = IF levels = {} THEN None ELSE Some(<<"h", "i", "g", "h">>)

\* C29: a `Dependencies:` or `Complexity:` annotation changes only the most
\* recently opened task, and only when it is an indented line immediately
\* following that task; a `Dependencies: none` annotation in any letter case
\* leaves that task's dependency list empty.
C29_AnnotationsOfFollowingIndentedLines ==
    PlanParsed =>
        \A k \in 1..Len(call.result.tasks) :
            AnnotatedByFollowingLines(call.plan.content, call.result.tasks[k])

\* The lines from a task's own line to the line before the next task
LinesOfTask(doc, tasks, k) ==
    tasks[k].line_number..
        (IF k < Len(tasks) THEN tasks[k + 1].line_number - 1 ELSE Len(doc))

\* What holds instead: a task none of whose lines, from its own line to the line
\* before the next task, carries the text of an annotation has no dependencies
\* and no complexity, whatever the other tasks' lines carry
C29_AnnotationChangesLastTaskOnly ==
    PlanParsed =>
        \A k \in 1..Len(call.result.tasks) :
            (\A j \in LinesOfTask(call.plan.content, call.result.tasks, k) :
                 call.plan.content[j] \notin AnnotationTexts) =>
                /\ call.result.tasks[k].dependencies = <<>>
                /\ call.result.tasks[k].complexity = None

\* The first of two tasks keeps no annotation, the second takes the indented
\* annotation that follows it
C29_SecondTaskAnnotated ==
    /\ PlanParsed
    /\ call.plan.content = <<"- [~] C", "- [~] C", "  - Dependencies: a, b">>
    /\ call.result.tasks[1].dependencies = <<>>
    /\ call.result.tasks[2].dependencies = <<<<"a">>, <<"b">>>>

\* `Dependencies: None` leaves the dependency list of its task empty
C29_NoneLeavesEmpty ==
    /\ PlanParsed
    /\ call.plan.content = <<"- [~] C", "  - Dependencies: None">>
    /\ call.result.tasks[1].dependencies = <<>>

\* An unindented annotation two lines after the task changes the task
C29_LateUnindentedAnnotation ==
    /\ PlanParsed
    /\ call.plan.content = <<"- [~] C", "text", "Dependencies: c">>
    /\ call.result.tasks[1].dependencies = <<<<"c">>>>

\* The text of an annotation on the task's own line changes the task
C29_AnnotationOnTaskLine ==
    /\ PlanParsed
    /\ call.plan.content = <<"- [ ] F Dependencies: d">>
    /\ call.result.tasks[1].dependencies = <<<<"d">>>>

\* ---------------------------------------------------------------------------
\* Claims about the environment of the hooks, under Spec
\* ---------------------------------------------------------------------------

\* The latest step of run called the hook function of this name
HookCalled(name) == hook.name = name

\* C31: the finished hook always receives FINISH_TYPE set to the run's finish
\* type, the started and next_iteration hooks never receive FINISH_TYPE, and
\* LAST_COMMIT_SHA is passed to a hook only if a commit has been recorded in
\* State.
C31_HookEnvironment ==
    /\ HookCalled("finished") =>
        /\ "FRESHER_FINISH_TYPE" \in DOMAIN hook.env
        /\ hook.env["FRESHER_FINISH_TYPE"] = state.finish_type
        /\ state.finish_type \in FinishTypes
    /\ (HookCalled("started") \/ HookCalled("next_iteration")) =>
        "FRESHER_FINISH_TYPE" \notin DOMAIN hook.env
    /\ (~HookCalled("none") /\ "FRESHER_LAST_COMMIT_SHA" \in DOMAIN hook.env) =>
        /\ state.total_commits > 0
        /\ state.last_commit_sha # NoSha
        /\ hook.env["FRESHER_LAST_COMMIT_SHA"] = state.last_commit_sha

\* The finished hook is run with both optional variables
C31_Witness ==
    /\ HookCalled("finished") /\ hook.executed
    /\ {"FRESHER_FINISH_TYPE", "FRESHER_LAST_COMMIT_SHA"} \subseteq DOMAIN hook.env

\* The next_iteration hook of a second iteration is run with the revision the
\* first iteration recorded, and without a finish type
C31_WitnessNextIteration ==
    /\ HookCalled("next_iteration") /\ hook.executed
    /\ "FRESHER_LAST_COMMIT_SHA" \in DOMAIN hook.env
    /\ "FRESHER_FINISH_TYPE" \notin DOMAIN hook.env

\* ---------------------------------------------------------------------------
\* Claims about the State record of a run, under Spec
\* ---------------------------------------------------------------------------

\* A State no iteration has touched
Fresh(s) ==
    /\ s.iteration = 0
    /\ s.total_commits = 0
    /\ s.finish_type = NoFinish
    /\ s.last_commit_sha = NoSha

\* C32: every run starts from a fresh State (iteration 0, zero commits, no
\* finish type) regardless of any State record persisted by an earlier run, and
\* the engine never deletes the persisted record, it only overwrites it (with
\* a record of this run's iteration).
C32_FreshStateRecordKept ==
    [][/\ pc = "started_hook" => Fresh(state) /\ Fresh(state')
       /\ saved # NoRecord => saved' # NoRecord
       /\ saved' # saved => saved' # NoRecord /\ saved'.iteration = state'.iteration]_vars

\* The run has passed the started hook with a fresh State while the record of
\* an earlier run is still on disk
C32_Witness ==
    /\ pc = "checkpoint" /\ HookCalled("started")
    /\ saved = StaleRecord
    /\ Fresh(state)

\* The run is over and its own State is on disk
C32_WitnessOverwritten ==
    /\ pc = "done"
    /\ saved = state
    /\ saved.iteration = 1

\* ---------------------------------------------------------------------------
\* Claims about the project after a migration, under SpecMigrate
\* ---------------------------------------------------------------------------

\* A build run was started after a successful migration
BuiltAfterMigration == call.fn = "migrate" /\ call.status = "built"

\* The migrated documents hold a checkbox line of a task that is not completed
MigratedWorkLeft(legacy) ==
    \E k \in 1..Len(legacy) :
        WrittenAs(legacy[k]) \in {"- [ ] A", "- [ ] D", "- [~] C"}

\* C33: after migrate_plan succeeds, a build run in the same project passes its
\* plan prerequisite check (it does not abort as if no plan existed) and decides
\* pending work from the migrated hierarchical documents.
C33_BuildAfterMigrationFindsPlan ==
    BuiltAfterMigration =>
        /\ ~call.build.aborted
        /\ call.build.pending = Some(MigratedWorkLeft(call.last.before.legacy.content))

\* What holds instead: the build run that follows a successful migration aborts
\* at the plan prerequisite, because migrate_plan has renamed the legacy plan
C33_BuildAfterMigrationAborts ==
    BuiltAfterMigration =>
        /\ call.build.aborted
        /\ ~exists(call.fs.legacy)
        /\ call.fs.backup = call.last.before.legacy

\* A build run after the migration of a plan with a pending task
C33_BuildWithPendingTask ==
    /\ BuiltAfterMigration
    /\ call.last.before.legacy.content = <<"- [ ] A (refs: specs/auth.md)">>
    /\ read_ok(call.fs.impl_dir.entries["auth.md"])

\* ---------------------------------------------------------------------------
\* Termination of a build run
\* ---------------------------------------------------------------------------

\* The steps run takes by itself once what it awaits has returned: a hook
\* invocation that terminates, a worker whose stream ends and that exits
RunStep ==
    \/ StartedHook
    \/ LoopHead
    \/ NextIterationHook
    \/ SpawnWorker
    \/ WorkerExit
    \/ WorkerStreamError
    \/ RecordIteration
    \/ Finalize
    \/ FinishedHook

\* A build run whose hook invocations and worker subprocesses all terminate
SpecTerminating == Spec /\ WF_vars(RunStep)

BeforeSpawn == {"next_hook", "spawn"}

\* C35: once the interrupt flag is set it is never cleared, at most one further
\* worker is spawned after that moment, and, if hooks and workers terminate, the
\* run eventually finishes. With the flag set a worker is spawned only by the
\* iteration that was under way, and no iteration is started: control that has
\* left the points before the spawn does not come back to them.
C35_InterruptStopsTheRun ==
    /\ [][/\ should_stop => should_stop'
          /\ (should_stop /\ worker'.spawned # worker.spawned) =>
                pc \in BeforeSpawn /\ worker'.spawned = worker.spawned + 1
          /\ (should_stop /\ pc \notin BeforeSpawn) => pc' \notin BeforeSpawn
          /\ should_stop => state'.iteration = state.iteration]_vars
    /\ should_stop ~> (pc \in {"done", "aborted", "failed"})

\* The flag is set while the iteration awaits its worker's spawn: this worker
\* is the one further worker
C35_Witness ==
    /\ should_stop
    /\ pc = "spawn"
    /\ state.iteration = 2
    /\ worker.spawned = 1

\* The interrupted run has finished as manual
C35_WitnessFinished ==
    /\ should_stop
    /\ pc = "done"
    /\ state.finish_type = "manual"
    /\ worker.spawned = 2

\* ---------------------------------------------------------------------------
\* The record the finished hook finds on disk, under Spec
\* ---------------------------------------------------------------------------

\* C36: when the finished hook is invoked, the persisted State record equals
\* the in-memory State passed to the hook, including finish_type and the final
\* duration: the final save always precedes the finished hook.
C36_SavedBeforeFinishedHook ==
    HookCalled("finished") =>
        /\ saved = state
        /\ saved.finish_type \in FinishTypes
        /\ hook.env["FRESHER_FINISH_TYPE"] = saved.finish_type
        /\ hook.env["FRESHER_DURATION"] = saved.duration
        /\ hook.env["FRESHER_ITERATION"] = saved.iteration
        /\ hook.env["FRESHER_TOTAL_COMMITS"] = saved.total_commits
        /\ hook.env["FRESHER_LAST_EXIT_CODE"] = saved.last_exit_code

\* The finished hook is run after a worker that took a second and failed: the
\* record on disk has the finish type and the duration the hook is given
C36_Witness ==
    /\ HookCalled("finished") /\ hook.executed
    /\ saved.finish_type = "error"
    /\ saved.duration = 1
    /\ hook.env["FRESHER_DURATION"] = 1

\* ---------------------------------------------------------------------------
\* The worker's result and the finish type, under Spec
\* ---------------------------------------------------------------------------

\* The run has left the loop with its finish type set
LoopLeft == pc \in {"finalize", "finished_hook", "done"}

\* The last worker of the run exited with a non-zero code (-1: no code at all)
LastWorkerFailed == worker.spawned > 0 /\ ~worker.alive /\ worker.exit_code # 0

\* The revision at the head of the repository is the one the iteration began at
NoNewRevision == get_current_sha(chain) = iteration_sha

\* C37: finish_type is Error if and only if the last worker exited with a
\* non-zero code; the is_error flag of the stream's Result event has no effect
\* on the finish type or on whether the loop continues: once the iteration is
\* recorded, both follow from the exit code, the smart-termination setting and
\* the revisions alone. (A run that fails on the save of the record returns
\* without a finish type.)
C37_ErrorIffExitCode ==
    [][/\ LoopLeft' => (state'.finish_type = "error" <=> LastWorkerFailed')
       /\ (pc = "record" /\ pc' \notin {"record", "failed"}) =>
            /\ state'.finish_type = "error" <=> worker.exit_code # 0
            /\ pc' = "checkpoint" <=>
                  /\ worker.exit_code = 0
                  /\ ~(config.smart_termination /\ NoNewRevision)
            /\ pc' = "finalize" <=> pc' # "checkpoint"]_vars

\* The stream's Result event says is_error, the worker exits with 0: the
\* iteration is recorded and the loop goes on
C37_Witness ==
    /\ pc = "checkpoint"
    /\ worker.is_error
    /\ worker.spawned = 1 /\ worker.exit_code = 0
    /\ state.last_exit_code = 0
    /\ state.finish_type = NoFinish

\* No is_error in the stream, the worker exits with 1: the run finishes as Error
C37_WitnessError ==
    /\ pc = "finalize"
    /\ ~worker.is_error
    /\ worker.exit_code = 1
    /\ state.finish_type = "error"

\* ---------------------------------------------------------------------------
\* has_pending_tasks against the index, under SpecIndex
\* ---------------------------------------------------------------------------

\* has_pending_tasks has returned for a hierarchical plan
PendingChecked ==
    /\ call.fn = "impl_plan"
    /\ call.last.op = "has_pending_tasks"
    /\ exists(call.impl_dir.entries["README.md"])

\* ImplIndex::load(impl_dir) succeeds and the index it returns is complete
IndexComplete(impl_dir) == load(impl_dir).ok /\ is_complete(load(impl_dir))

\* C38: for a hierarchical plan, has_pending_tasks returns false exactly when
\* ImplIndex::load(...).is_complete() is true, so the engine finishes as
\* Complete only when the index reports zero pending tasks (in-progress `[~]`
\* items counted as pending).
C38_NoPendingIffIndexComplete ==
    PendingChecked => (~call.last.result <=> IndexComplete(call.impl_dir))

\* A root document of the directory has a line of the given kind
RootHasLine(kind) ==
    \E name \in FeatureFiles \cup {"README.md"} :
        HasLine(call.impl_dir.entries[name], kind)

\* What holds instead: the two agree on the directories whose index document is
\* readable, whose documents have no in-progress checkbox, and whose index
\* document has its pending checkboxes under the cross-cutting heading
C38_AgreeWithoutInProgress ==
    (/\ PendingChecked
     /\ read_ok(call.impl_dir.entries["README.md"])
     /\ ~RootHasLine({"- [~] t"})
     /\ HasLine(call.impl_dir.entries["README.md"], PendingCheckboxLines) =>
            HasLine(call.impl_dir.entries["README.md"], {"## Cross-Cutting Tasks"}))
        => (~call.last.result <=> IndexComplete(call.impl_dir))

\* The only open item of the plan is an in-progress checkbox: has_pending_tasks
\* says no pending tasks, the index is not complete
C38_InProgressOverlooked ==
    /\ PendingChecked
    /\ call.impl_dir.entries["auth.md"] = File(<<"- [~] t">>)
    /\ call.impl_dir.entries["README.md"] = File(<<"text">>)
    /\ ~call.last.result
    /\ load(call.impl_dir).ok
    /\ ~is_complete(load(call.impl_dir))

\* A pending checkbox of the index document outside a cross-cutting section:
\* has_pending_tasks says pending, the index is complete
C38_IndexCheckboxUncounted ==
    /\ PendingChecked
    /\ call.impl_dir.entries["README.md"] = File(<<"## Cross-cutting", "- [ ] t">>)
    /\ call.last.result
    /\ IndexComplete(call.impl_dir)

\* The two agree: a pending checkbox in a feature document
C38_Agree ==
    /\ PendingChecked
    /\ call.impl_dir.entries["auth.md"] = File(<<"- [ ] t">>)
    /\ call.last.result
    /\ load(call.impl_dir).ok
    /\ ~is_complete(load(call.impl_dir))

\* ---------------------------------------------------------------------------
\* The index of a migrated plan, under SpecMigrate
\* ---------------------------------------------------------------------------

\* ImplIndex::load has returned on the directory of a successful migration
LoadedAfterMigration == call.fn = "migrate" /\ call.status = "loaded"

\* The number of tasks parse_plan reports with one of the given statuses
ParsedCount(plan, statuses) ==
    LET tasks == parse_plan(plan).tasks
    IN Cardinality({k \in 1..Len(tasks) : tasks[k].status \in statuses})

\* C39: after a successful migration, ImplIndex::load on the generated
\* directory reports the same total and completed task counts as parse_plan
\* reported for the legacy plan before the migration.
C39_LoadReportsParsedCounts ==
    LoadedAfterMigration =>
        /\ call.index.ok
        /\ index_total_tasks(call.index) =
              ParsedCount(call.last.before.legacy, {"Pending", "Completed", "InProgress"})
        /\ index_completed_tasks(call.index) =
              ParsedCount(call.last.before.legacy, {"Completed"})

\* What holds instead: the counts are the same for the plans that have no
\* in-progress task without a spec reference and no task whose spec's
\* normalized name is README
C39_SameCountsUnlessOrphanInProgress ==
    (/\ LoadedAfterMigration
     /\ \A k \in 1..Len(call.last.before.legacy.content) :
           call.last.before.legacy.content[k]
               \notin {"- [~] C", "- [ ] D (refs: specs/README.md)"})
        => C39_LoadReportsParsedCounts

\* An in-progress task without a spec reference is written under the
\* cross-cutting heading and is not counted by the index
C39_OrphanInProgressLost ==
    /\ LoadedAfterMigration
    /\ call.last.before.legacy.content = <<"- [x] B (ref: auth, specs/big.md)", "- [~] C">>
    /\ ParsedCount(call.last.before.legacy, {"Pending", "Completed", "InProgress"}) = 2
    /\ call.index.ok
    /\ index_total_tasks(call.index) = 1
    /\ index_completed_tasks(call.index) = 1

\* A plan whose counts come back the same
C39_SameCounts ==
    /\ LoadedAfterMigration
    /\ call.last.before.legacy.content =
          <<"- [ ] A (refs: specs/auth.md)", "- [x] B (ref: auth, specs/big.md)",
            "- [X] E (refs: specs/big.md)">>
    /\ call.index.ok
    /\ index_total_tasks(call.index) = 3
    /\ index_completed_tasks(call.index) = 2

====
